---- MODULE Spec2Model ----
(***************************************************************************)
(* Personal Finance Tracker: the REST API over the category, transaction   *)
(* and budget collections (backend/routes), the Budget model's virtuals    *)
(* and the UI's budget status derivation.                                  *)
(*                                                                         *)
(* A collection is a set of documents (records with an _id).  ObjectIds    *)
(* are drawn from a counter per collection and are never reused.  Dates    *)
(* are day numbers, amounts are whole currency units.                      *)
(***************************************************************************)
EXTENDS Integers, Sequences, FiniteSets

VARIABLES
    categories,     \* the Category collection
    transactions,   \* the Transaction collection
    budgets,        \* the Budget collection
    nextId,         \* [cat, tx, bud]: the next ObjectId of each collection
    req,            \* the last request: [user], the user auth put in req.user
    res,            \* the response to the last request: [status, body]
    inflight,       \* the requests being served concurrently, by request number
    ui,             \* the state of the React application, its open tab included
    notifications,  \* the Notification collection
    localStorage,   \* the browser's three financeTracker_ entries
    effects,        \* React's pending effects and queued state updates
    pagesRead       \* the pages a client has read since it asked for page 1

vars == <<categories, transactions, budgets, nextId, req, res, inflight, ui,
          notifications, localStorage, effects, pagesRead>>

----------------------------------------------------------------------------
(* Bounds of the model *)

MaxCategories == 2      \* category documents ever created
MaxTransactions == 1    \* transaction documents ever created
MaxBudgets == 2         \* budget documents ever created
MaxBudgetTransactions == 2  \* transaction documents ever created (budget API)
MaxDate == 2            \* dates are days 1..MaxDate
MaxAmount == 2          \* transaction amounts are 1..MaxAmount
MaxBudgetAmount == 4    \* budget amounts are 1..MaxBudgetAmount
MaxSpent == 6           \* spent values are 0..MaxSpent
MaxMonth == 2           \* the UI's transactions are dated in months 1..MaxMonth
MaxUiAmount == 2        \* amounts typed into the UI's forms are 0..MaxUiAmount
MaxUiIds == 3           \* records ever added in the UI
MaxRequests == 2        \* requests served concurrently
MaxReportRecords == 2   \* transactions ever recorded under the reports
MaxTrendRecords == 2    \* transactions ever recorded, API and UI together

Users == {"u1", "u2"}
Types == {"income", "expense"}
Periods == {"weekly", "monthly", "yearly"}

(* A request body of a PUT: keys is the set of keys the JSON body holds; a
   field whose key is not in keys is undefined. *)
Has(updates, key) == key \in updates.keys

Dates == 1..MaxDate

(* Category names are strings, modelled as tuples of one-character strings
   over the alphabet a, A, ".", " ". *)
InputNames == { <<"a">>, <<"A">>, <<".">>, <<" ", "a">>, <<" ">> }

----------------------------------------------------------------------------
(* Strings *)

IsSpace(c) == c = " "

RECURSIVE TrimLeft(_)
TrimLeft(s) ==
    IF s = <<>> THEN s
    ELSE IF IsSpace(Head(s)) THEN TrimLeft(Tail(s)) ELSE s

RECURSIVE TrimRight(_)
TrimRight(s) ==
    IF s = <<>> THEN s
    ELSE IF IsSpace(s[Len(s)]) THEN TrimRight(SubSeq(s, 1, Len(s) - 1)) ELSE s

(* express-validator .trim() / mongoose trim: true *)
Trim(s) == TrimRight(TrimLeft(s))

LowerChar(c) == IF c = "A" THEN "a" ELSE c

(* equality of two names ignoring letter case *)
EqualIgnoreCase(s, t) ==
    /\ Len(s) = Len(t)
    /\ \A i \in 1..Len(s) : LowerChar(s[i]) = LowerChar(t[i])

(* new RegExp(`^${name}$`, 'i').test(value): the name is used as the pattern
   unescaped, so a "." of the name matches any one character. *)
RegexMatch(name, value) ==
    /\ Len(name) = Len(value)
    /\ \A i \in 1..Len(name) :
          \/ name[i] = "."
          \/ LowerChar(name[i]) = LowerChar(value[i])

----------------------------------------------------------------------------
(* Responses *)

Request(u) == [user |-> u]
Response(status) == [status |-> status, body |-> <<>>]
ResponseWith(status, body) == [status |-> status, body |-> body]

----------------------------------------------------------------------------
(* Requests in flight.  A handler runs to its next await; the query or the
   write it awaits is one step of the database, and between two awaits of one
   request the steps of other requests may run.  The first step of a handler
   takes the request: the validators and the first await.  A handler that
   awaits again leaves a record in inflight: op, user, id (the id of the URL,
   or the _id of the document a POST has built), the body, pc (the await it
   is about to run), found (the documents the handler holds) and count.  A
   document gets its _id and its createdAt where the handler builds it, on
   the return of the await before its save: the _ids grow with createdAt.  The step that answers sets req and res and removes the
   record. *)

NoRequests == <<>>

NewRequest(op, u, id, body, pc, found) ==
    [op |-> op, user |-> u, id |-> id, body |-> body, pc |-> pc,
     found |-> found, count |-> 0]

(* inflight without request i *)
Without(i) ==
    SubSeq(inflight, 1, i - 1) \o SubSeq(inflight, i + 1, Len(inflight))

----------------------------------------------------------------------------
(* backend/routes/categories.js *)

(* categorySchema.index({user, name, type}, {unique: true}): would storing
   doc (in place of the document with its _id, if any) break the index? *)
CategoryIndexViolated(doc) ==
    \E c \in categories :
        /\ c._id # doc._id
        /\ c.user = doc.user
        /\ c.name = doc.name
        /\ c.type = doc.type

(* POST /api/categories: the validators, then await Category.findOne; the
   handler then builds the category *)
PostCategoryFindOne(u, name, type) ==
    LET n == Trim(name)
        existingCategory ==
            { c \in categories :
                /\ c.user = u
                /\ RegexMatch(n, c.name)
                /\ c.type = type
                /\ c.isActive }
    IN  /\ IF Len(n) < 1 \/ type \notin Types \/ existingCategory # {}
           THEN /\ res' = Response(400)
                /\ req' = Request(u)
                /\ UNCHANGED <<inflight, nextId>>
           ELSE /\ inflight' = Append(inflight,
                        NewRequest("postCategory", u, nextId.cat,
                                   [name |-> n, type |-> type], "save", {}))
                /\ nextId' = [nextId EXCEPT !.cat = @ + 1]
                /\ UNCHANGED <<req, res>>
        /\ UNCHANGED <<categories, transactions, budgets>>

(* POST /api/categories: await category.save(); a document that breaks the
   unique index is refused by the database (E11000), which the handler
   answers with 500 *)
PostCategorySave(i) ==
    LET r == inflight[i]
        category == [_id |-> r.id, user |-> r.user, name |-> r.body.name,
                     type |-> r.body.type, isActive |-> TRUE]
    IN  /\ r.op = "postCategory" /\ r.pc = "save"
        /\ IF CategoryIndexViolated(category)
           THEN /\ res' = Response(500)
                /\ UNCHANGED categories
           ELSE /\ categories' = categories \cup {category}
                /\ res' = Response(201)
        /\ req' = Request(r.user)
        /\ inflight' = Without(i)
        /\ UNCHANGED <<transactions, budgets, nextId>>

(* The assignment loop of PUT /api/categories/:id: every key of the body
   but 'type' is copied onto the document. *)
ApplyCategoryUpdates(category, updates) ==
    [category EXCEPT
        !.name = IF Has(updates, "name") THEN Trim(updates.name) ELSE @,
        !.isActive = IF Has(updates, "isActive") THEN updates.isActive ELSE @,
        !.user = IF Has(updates, "user") THEN updates.user ELSE @]

(* category.save(): the paths the handler gave another value than the one it
   loaded are written to the stored document, the others are left as stored *)
SaveCategory(stored, loaded, assigned) ==
    [stored EXCEPT
        !.name = IF assigned.name # loaded.name THEN assigned.name ELSE @,
        !.isActive = IF assigned.isActive # loaded.isActive
                     THEN assigned.isActive ELSE @,
        !.user = IF assigned.user # loaded.user THEN assigned.user ELSE @]

(* PUT /api/categories/:id: the validators, then await Category.findOne *)
PutCategoryFindOne(u, id, updates) ==
    LET found == { c \in categories : c._id = id /\ c.user = u }
    IN  /\ IF Has(updates, "name") /\ Len(Trim(updates.name)) < 1
           THEN /\ res' = Response(400)
                /\ req' = Request(u)
                /\ UNCHANGED inflight
           ELSE IF found = {}
           THEN /\ res' = Response(404)
                /\ req' = Request(u)
                /\ UNCHANGED inflight
           ELSE LET category == CHOOSE c \in found : TRUE
                IN  /\ inflight' = Append(inflight,
                            NewRequest("putCategory", u, id, updates,
                                IF /\ Has(updates, "name")
                                   /\ Trim(updates.name) # category.name
                                THEN "findExisting" ELSE "save",
                                found))
                    /\ UNCHANGED <<req, res>>
        /\ UNCHANGED <<categories, transactions, budgets, nextId>>

(* PUT /api/categories/:id: await Category.findOne for another active
   category of the new name *)
PutCategoryFindExisting(i) ==
    LET r == inflight[i]
        category == CHOOSE c \in r.found : TRUE
        existingCategory ==
            { c \in categories :
                /\ c.user = r.user
                /\ RegexMatch(Trim(r.body.name), c.name)
                /\ c.type = category.type
                /\ c.isActive
                /\ c._id # category._id }
    IN  /\ r.op = "putCategory" /\ r.pc = "findExisting"
        /\ IF existingCategory # {}
           THEN /\ res' = Response(400)
                /\ req' = Request(r.user)
                /\ inflight' = Without(i)
           ELSE /\ inflight' = [inflight EXCEPT ![i].pc = "save"]
                /\ UNCHANGED <<req, res>>
        /\ UNCHANGED <<categories, transactions, budgets, nextId>>

(* PUT /api/categories/:id: the assignment loop and await category.save().
   save() of a document that is no longer stored throws, and so does an
   update that breaks the unique index; the handler answers both with 500. *)
PutCategorySave(i) ==
    LET r == inflight[i]
        category == CHOOSE c \in r.found : TRUE
        assigned == ApplyCategoryUpdates(category, r.body)
        stored == { c \in categories : c._id = category._id }
        saved == { SaveCategory(c, category, assigned) : c \in stored }
    IN  /\ r.op = "putCategory" /\ r.pc = "save"
        /\ IF stored = {} \/ \E c \in saved : CategoryIndexViolated(c)
           THEN /\ res' = Response(500)
                /\ UNCHANGED categories
           ELSE /\ categories' = (categories \ stored) \cup saved
                /\ res' = Response(200)
        /\ req' = Request(r.user)
        /\ inflight' = Without(i)
        /\ UNCHANGED <<transactions, budgets, nextId>>

(* DELETE /api/categories/:id: await Category.findOne *)
DeleteCategoryFindOne(u, id) ==
    LET found == { c \in categories : c._id = id /\ c.user = u }
    IN  /\ IF found = {}
           THEN /\ res' = Response(404)
                /\ req' = Request(u)
                /\ UNCHANGED inflight
           ELSE /\ inflight' = Append(inflight,
                        NewRequest("deleteCategory", u, id, <<>>,
                                   "countDocuments", found))
                /\ UNCHANGED <<req, res>>
        /\ UNCHANGED <<categories, transactions, budgets, nextId>>

(* DELETE /api/categories/:id: await Transaction.countDocuments *)
DeleteCategoryCount(i) ==
    LET r == inflight[i]
        category == CHOOSE c \in r.found : TRUE
        transactionCount ==
            Cardinality({ t \in transactions :
                t.user = r.user /\ t.category = category._id })
    IN  /\ r.op = "deleteCategory" /\ r.pc = "countDocuments"
        /\ inflight' = [inflight EXCEPT ![i].count = transactionCount,
                                        ![i].pc = "write"]
        /\ UNCHANGED <<categories, transactions, budgets, nextId, req, res>>

(* a delete that removes the record whether or not it is referenced *)
DeleteCategoryWriteAlwaysRemoves(i) ==
    LET r == inflight[i]
        category == CHOOSE c \in r.found : TRUE
        stored == { c \in categories : c._id = category._id }
    IN  /\ r.op = "deleteCategory" /\ r.pc = "write"
        /\ categories' = categories \ stored
        /\ res' = Response(200)
        /\ req' = Request(r.user)
        /\ inflight' = Without(i)
        /\ UNCHANGED <<transactions, budgets, nextId>>

(* DELETE /api/categories/:id: await category.save() with isActive false,
   or await Category.findByIdAndDelete.  save() of a document that is no
   longer stored throws, which the handler answers with 500. *)
DeleteCategoryWrite(i) ==
    LET r == inflight[i]
        category == CHOOSE c \in r.found : TRUE
        assigned == [category EXCEPT !.isActive = FALSE]
        stored == { c \in categories : c._id = category._id }
    IN  /\ r.op = "deleteCategory" /\ r.pc = "write"
        /\ IF r.count > 0
           THEN IF stored = {}
                THEN /\ res' = Response(500)
                     /\ UNCHANGED categories
                ELSE /\ categories' = (categories \ stored) \cup
                            { SaveCategory(c, category, assigned) : c \in stored }
                     /\ res' = Response(200)
           ELSE /\ categories' = categories \ stored
                /\ res' = Response(200)
        /\ req' = Request(r.user)
        /\ inflight' = Without(i)
        /\ UNCHANGED <<transactions, budgets, nextId>>

----------------------------------------------------------------------------
(* backend/routes/transactions.js.  POST and PUT await the populate of the
   category after the save and answer then; the body of their answers, the
   populated transaction, is not part of the answers here. *)

(* a create that looks the category up among the deactivated ones too *)
PostTransactionFindOneAnyCategory(u, type, amount, category, date) ==
    LET categoryDoc ==
            { c \in categories :
                /\ c._id = category /\ c.user = u /\ c.type = type }
    IN  /\ IF type \notin Types \/ amount < 1 \/ categoryDoc = {}
           THEN /\ res' = Response(400)
                /\ req' = Request(u)
                /\ UNCHANGED <<inflight, nextId>>
           ELSE /\ inflight' = Append(inflight,
                        NewRequest("postTransaction", u, nextId.tx,
                                   [keys |-> {}, type |-> type,
                                    amount |-> amount, category |-> category,
                                    date |-> date, user |-> u],
                                   "save", categoryDoc))
                /\ nextId' = [nextId EXCEPT !.tx = @ + 1]
                /\ UNCHANGED <<req, res>>
        /\ UNCHANGED <<categories, transactions, budgets>>

(* POST /api/transactions: the validators, then await Category.findOne; the
   handler then builds the transaction *)
PostTransactionFindOne(u, type, amount, category, date) ==
    LET categoryDoc ==
            { c \in categories :
                /\ c._id = category
                /\ c.user = u
                /\ c.type = type
                /\ c.isActive }
    IN  /\ IF type \notin Types \/ amount < 1 \/ categoryDoc = {}
           THEN /\ res' = Response(400)
                /\ req' = Request(u)
                /\ UNCHANGED <<inflight, nextId>>
           ELSE /\ inflight' = Append(inflight,
                        NewRequest("postTransaction", u, nextId.tx,
                                   [keys |-> {}, type |-> type,
                                    amount |-> amount, category |-> category,
                                    date |-> date, user |-> u],
                                   "save", categoryDoc))
                /\ nextId' = [nextId EXCEPT !.tx = @ + 1]
                /\ UNCHANGED <<req, res>>
        /\ UNCHANGED <<categories, transactions, budgets>>

(* POST /api/transactions: await transaction.save() *)
PostTransactionSave(i) ==
    LET r == inflight[i]
        transaction == [_id |-> r.id, user |-> r.user,
                        type |-> r.body.type, amount |-> r.body.amount,
                        category |-> r.body.category, date |-> r.body.date]
    IN  /\ r.op = "postTransaction" /\ r.pc = "save"
        /\ transactions' = transactions \cup {transaction}
        /\ inflight' = [inflight EXCEPT ![i].pc = "populate"]
        /\ UNCHANGED <<categories, budgets, nextId, req, res>>

(* POST /api/transactions: await transaction.populate('category'), then the
   answer *)
PostTransactionPopulate(i) ==
    LET r == inflight[i]
    IN  /\ r.op = "postTransaction" /\ r.pc = "populate"
        /\ res' = Response(201)
        /\ req' = Request(r.user)
        /\ inflight' = Without(i)
        /\ UNCHANGED <<categories, transactions, budgets, nextId>>

(* The assignment loop of PUT /api/transactions/:id: every key of the body
   is copied onto the document. *)
ApplyTransactionUpdates(transaction, updates) ==
    [transaction EXCEPT
        !.type = IF Has(updates, "type") THEN updates.type ELSE @,
        !.amount = IF Has(updates, "amount") THEN updates.amount ELSE @,
        !.category = IF Has(updates, "category") THEN updates.category ELSE @,
        !.date = IF Has(updates, "date") THEN updates.date ELSE @,
        !.user = IF Has(updates, "user") THEN updates.user ELSE @]

(* transaction.save(): the paths the handler gave another value than the one
   it loaded are written to the stored document *)
SaveTransaction(stored, loaded, assigned) ==
    [stored EXCEPT
        !.type = IF assigned.type # loaded.type THEN assigned.type ELSE @,
        !.amount = IF assigned.amount # loaded.amount THEN assigned.amount ELSE @,
        !.category = IF assigned.category # loaded.category
                     THEN assigned.category ELSE @,
        !.date = IF assigned.date # loaded.date THEN assigned.date ELSE @,
        !.user = IF assigned.user # loaded.user THEN assigned.user ELSE @]

(* PUT /api/transactions/:id: the validators, then await
   Transaction.findOne *)
PutTransactionFindOne(u, id, updates) ==
    LET found == { t \in transactions : t._id = id /\ t.user = u }
    IN  /\ IF \/ (Has(updates, "type") /\ updates.type \notin Types)
              \/ (Has(updates, "amount") /\ updates.amount < 1)
           THEN /\ res' = Response(400)
                /\ req' = Request(u)
                /\ UNCHANGED inflight
           ELSE IF found = {}
           THEN /\ res' = Response(404)
                /\ req' = Request(u)
                /\ UNCHANGED inflight
           ELSE /\ inflight' = Append(inflight,
                        NewRequest("putTransaction", u, id, updates,
                                   IF Has(updates, "category")
                                   THEN "findCategory" ELSE "save",
                                   found))
                /\ UNCHANGED <<req, res>>
        /\ UNCHANGED <<categories, transactions, budgets, nextId>>

(* an update that saves the document before it answers, whatever the answer *)
PutTransactionFindCategorySaveFirst(i) ==
    LET r == inflight[i]
        transaction == CHOOSE t \in r.found : TRUE
        categoryDoc ==
            { c \in categories :
                /\ c._id = r.body.category
                /\ c.user = r.user
                /\ c.type = (IF Has(r.body, "type") THEN r.body.type
                             ELSE transaction.type)
                /\ c.isActive }
        assigned == ApplyTransactionUpdates(transaction, r.body)
        stored == { t \in transactions : t._id = transaction._id }
    IN  /\ r.op = "putTransaction" /\ r.pc = "findCategory"
        /\ transactions' = (transactions \ stored) \cup
                { SaveTransaction(t, transaction, assigned) : t \in stored }
        /\ res' = IF categoryDoc = {} THEN Response(400) ELSE Response(200)
        /\ req' = Request(r.user)
        /\ inflight' = Without(i)
        /\ UNCHANGED <<categories, budgets, nextId>>

(* PUT /api/transactions/:id: await Category.findOne *)
PutTransactionFindCategory(i) ==
    LET r == inflight[i]
        transaction == CHOOSE t \in r.found : TRUE
        categoryDoc ==
            { c \in categories :
                /\ c._id = r.body.category
                /\ c.user = r.user
                /\ c.type = (IF Has(r.body, "type") THEN r.body.type
                             ELSE transaction.type)
                /\ c.isActive }
    IN  /\ r.op = "putTransaction" /\ r.pc = "findCategory"
        /\ IF categoryDoc = {}
           THEN /\ res' = Response(400)
                /\ req' = Request(r.user)
                /\ inflight' = Without(i)
           ELSE /\ inflight' = [inflight EXCEPT ![i].pc = "save"]
                /\ UNCHANGED <<req, res>>
        /\ UNCHANGED <<categories, transactions, budgets, nextId>>

(* PUT /api/transactions/:id: the assignment loop and await
   transaction.save(); save() of a document that is no longer stored throws,
   which the handler answers with 500 *)
PutTransactionSave(i) ==
    LET r == inflight[i]
        transaction == CHOOSE t \in r.found : TRUE
        assigned == ApplyTransactionUpdates(transaction, r.body)
        stored == { t \in transactions : t._id = transaction._id }
    IN  /\ r.op = "putTransaction" /\ r.pc = "save"
        /\ IF stored = {}
           THEN /\ res' = Response(500)
                /\ req' = Request(r.user)
                /\ inflight' = Without(i)
                /\ UNCHANGED transactions
           ELSE /\ transactions' = (transactions \ stored) \cup
                        { SaveTransaction(t, transaction, assigned) : t \in stored }
                /\ inflight' = [inflight EXCEPT ![i].pc = "populate"]
                /\ UNCHANGED <<req, res>>
        /\ UNCHANGED <<categories, budgets, nextId>>

(* PUT /api/transactions/:id: await transaction.populate('category'), then
   the answer *)
PutTransactionPopulate(i) ==
    LET r == inflight[i]
    IN  /\ r.op = "putTransaction" /\ r.pc = "populate"
        /\ res' = Response(200)
        /\ req' = Request(r.user)
        /\ inflight' = Without(i)
        /\ UNCHANGED <<categories, transactions, budgets, nextId>>

(* DELETE /api/transactions/:id: await Transaction.findOneAndDelete *)
DeleteTransaction(u, id) ==
    LET found == { t \in transactions : t._id = id /\ t.user = u }
    IN  /\ IF found = {}
           THEN /\ res' = Response(404)
                /\ UNCHANGED transactions
           ELSE /\ transactions' = transactions \ found
                /\ res' = Response(200)
        /\ req' = Request(u)
        /\ UNCHANGED <<categories, budgets, nextId>>

----------------------------------------------------------------------------
(* The Budget model (models/Budget.js) *)

DefaultWarning == 80
DefaultCritical == 95
Exceeded == 100

DefaultThresholds == [warning |-> DefaultWarning, critical |-> DefaultCritical]

Max(a, b) == IF a >= b THEN a ELSE b

(* A percentage is the fraction num/den, den > 0; it is compared with whole
   numbers without rounding.  On the amounts of this model the floating
   point value (spent / amount) * 100 compares the same way. *)
PctGE(p, k) == p.num >= k * p.den
PctGT(p, k) == p.num > k * p.den

(* budgetSchema.virtual('percentageUsed') *)
PercentageUsed(budget) ==
    IF budget.amount > 0
    THEN [num |-> budget.spent * 100, den |-> budget.amount]
    ELSE [num |-> 0, den |-> 1]

(* Remaining without the clamp at 0 *)
RemainingUnclamped(budget) == budget.amount - budget.spent

(* budgetSchema.virtual('remaining') *)
Remaining(budget) == Max(0, budget.amount - budget.spent)

(* Status with the critical threshold tested before the 100% mark *)
StatusCriticalFirst(budget) ==
    LET percentage == PercentageUsed(budget)
    IN  IF PctGE(percentage, budget.alertThresholds.critical) THEN "critical"
        ELSE IF PctGE(percentage, Exceeded) THEN "exceeded"
        ELSE IF PctGE(percentage, budget.alertThresholds.warning) THEN "warning"
        ELSE "good"

(* Status with the warning threshold tested before the critical one *)
StatusWarningFirst(budget) ==
    LET percentage == PercentageUsed(budget)
    IN  IF PctGE(percentage, Exceeded) THEN "exceeded"
        ELSE IF PctGE(percentage, budget.alertThresholds.warning) THEN "warning"
        ELSE IF PctGE(percentage, budget.alertThresholds.critical) THEN "critical"
        ELSE "good"

(* budgetSchema.virtual('status') *)
Status(budget) ==
    LET percentage == PercentageUsed(budget)
    IN  IF PctGE(percentage, Exceeded) THEN "exceeded"
        ELSE IF PctGE(percentage, budget.alertThresholds.critical) THEN "critical"
        ELSE IF PctGE(percentage, budget.alertThresholds.warning) THEN "warning"
        ELSE "good"

(* The schema's validators, run by save(): amount min 0.01, spent min 0,
   alertThresholds min 0 max 100. *)
BudgetValid(budget) ==
    /\ budget.amount >= 1
    /\ budget.spent >= 0
    /\ budget.alertThresholds.warning \in 0..100
    /\ budget.alertThresholds.critical \in 0..100

(* .populate('category', 'name color type'): the referenced category, or
   none (null) when the reference does not resolve *)
Populate(id) ==
    { [_id |-> c._id, name |-> c.name, type |-> c.type] :
        c \in { d \in categories : d._id = id } }

(* toJSON with virtuals: true, the category populated *)
ToJSON(budget) ==
    [_id |-> budget._id,
     user |-> budget.user,
     category |-> budget.category,
     categoryDoc |-> Populate(budget.category),
     amount |-> budget.amount,
     period |-> budget.period,
     startDate |-> budget.startDate,
     endDate |-> budget.endDate,
     spent |-> budget.spent,
     alertThresholds |-> budget.alertThresholds,
     isActive |-> budget.isActive,
     remaining |-> Remaining(budget),
     percentageUsed |-> PercentageUsed(budget),
     status |-> Status(budget)]

(* .sort({ createdAt: -1 }): newest first; ObjectIds grow with creation *)
RECURSIVE SortNewestFirst(_)
SortNewestFirst(docs) ==
    IF docs = {} THEN <<>>
    ELSE LET newest == CHOOSE d \in docs : \A e \in docs : e._id <= d._id
         IN  <<newest>> \o SortNewestFirst(docs \ {newest})

----------------------------------------------------------------------------
(* The budget routes (routes/budgets.js).  POST and PUT await the populate of
   the category after the save and answer then; the body of their answers,
   the populated budget, is not part of the answers here. *)

(* GET /api/budgets: Budget.find(filter); period and active are the optional
   query parameters, "" standing for a parameter that is not given *)
GetBudgetsFind(u, period, active) ==
    LET found ==
            { b \in budgets :
                /\ b.user = u
                /\ (period # "" => b.period = period)
                /\ (active # "" => b.isActive = (active = "true")) }
    IN  /\ inflight' = Append(inflight,
                NewRequest("getBudgets", u, 0,
                           [period |-> period, active |-> active],
                           "populate", found))
        /\ UNCHANGED <<categories, transactions, budgets, nextId, req, res>>

(* GET /api/budgets: populate's query for the categories of the budgets
   found, then the answer *)
GetBudgetsPopulate(i) ==
    LET r == inflight[i]
        sorted == SortNewestFirst(r.found)
    IN  /\ r.op = "getBudgets" /\ r.pc = "populate"
        /\ res' = ResponseWith(200, [k \in 1..Len(sorted) |-> ToJSON(sorted[k])])
        /\ req' = Request(r.user)
        /\ inflight' = Without(i)
        /\ UNCHANGED <<categories, transactions, budgets, nextId>>

(* POST /api/budgets: the validators, then await Category.findOne *)
PostBudgetFindCategory(u, category, amount, period, startDate, endDate, alertThresholds) ==
    LET categoryDoc ==
            { c \in categories :
                /\ c._id = category
                /\ c.user = u
                /\ c.type = "expense"
                /\ c.isActive }
    IN  /\ IF amount < 1 \/ period \notin Periods \/ categoryDoc = {}
           THEN /\ res' = Response(400)
                /\ req' = Request(u)
                /\ UNCHANGED inflight
           ELSE /\ inflight' = Append(inflight,
                        NewRequest("postBudget", u, 0,
                                   [category |-> category, amount |-> amount,
                                    period |-> period, startDate |-> startDate,
                                    endDate |-> endDate,
                                    alertThresholds |-> alertThresholds],
                                   "findExisting", categoryDoc))
                /\ UNCHANGED <<req, res>>
        /\ UNCHANGED <<categories, transactions, budgets, nextId>>

(* an overlap test that lets windows share an end day *)
PostBudgetFindExistingStrictOverlap(i) ==
    LET r == inflight[i]
        existingBudget ==
            { b \in budgets :
                /\ b.user = r.user
                /\ b.category = r.body.category
                /\ b.period = r.body.period
                /\ b.isActive
                /\ b.startDate < r.body.endDate
                /\ b.endDate > r.body.startDate }
    IN  /\ r.op = "postBudget" /\ r.pc = "findExisting"
        /\ IF existingBudget # {}
           THEN /\ res' = Response(400)
                /\ req' = Request(r.user)
                /\ inflight' = Without(i)
                /\ UNCHANGED nextId
           ELSE /\ inflight' = [inflight EXCEPT ![i].pc = "save",
                                                ![i].id = nextId.bud]
                /\ nextId' = [nextId EXCEPT !.bud = @ + 1]
                /\ UNCHANGED <<req, res>>
        /\ UNCHANGED <<categories, transactions, budgets>>

(* POST /api/budgets: await Budget.findOne for an active budget of the
   category and period whose window meets the new one; the handler then
   builds the budget *)
PostBudgetFindExisting(i) ==
    LET r == inflight[i]
        existingBudget ==
            { b \in budgets :
                /\ b.user = r.user
                /\ b.category = r.body.category
                /\ b.period = r.body.period
                /\ b.isActive
                /\ b.startDate <= r.body.endDate
                /\ b.endDate >= r.body.startDate }
    IN  /\ r.op = "postBudget" /\ r.pc = "findExisting"
        /\ IF existingBudget # {}
           THEN /\ res' = Response(400)
                /\ req' = Request(r.user)
                /\ inflight' = Without(i)
                /\ UNCHANGED nextId
           ELSE /\ inflight' = [inflight EXCEPT ![i].pc = "save",
                                                ![i].id = nextId.bud]
                /\ nextId' = [nextId EXCEPT !.bud = @ + 1]
                /\ UNCHANGED <<req, res>>
        /\ UNCHANGED <<categories, transactions, budgets>>

(* POST /api/budgets: await budget.save(), which runs the validators of the
   schema first *)
PostBudgetSave(i) ==
    LET r == inflight[i]
        budget == [_id |-> r.id, user |-> r.user,
                   category |-> r.body.category, amount |-> r.body.amount,
                   period |-> r.body.period, startDate |-> r.body.startDate,
                   endDate |-> r.body.endDate, spent |-> 0,
                   alertThresholds |-> r.body.alertThresholds,
                   isActive |-> TRUE]
    IN  /\ r.op = "postBudget" /\ r.pc = "save"
        /\ IF ~BudgetValid(budget)
           THEN /\ res' = Response(500)
                /\ req' = Request(r.user)
                /\ inflight' = Without(i)
                /\ UNCHANGED budgets
           ELSE /\ budgets' = budgets \cup {budget}
                /\ inflight' = [inflight EXCEPT ![i].pc = "populate"]
                /\ UNCHANGED <<req, res>>
        /\ UNCHANGED <<categories, transactions, nextId>>

(* POST /api/budgets: await budget.populate('category'), then the answer *)
PostBudgetPopulate(i) ==
    LET r == inflight[i]
    IN  /\ r.op = "postBudget" /\ r.pc = "populate"
        /\ res' = Response(201)
        /\ req' = Request(r.user)
        /\ inflight' = Without(i)
        /\ UNCHANGED <<categories, transactions, budgets, nextId>>

(* The assignment loop of PUT /api/budgets/:id: every key of the body but
   'category' and 'period' is copied onto the document. *)
ApplyBudgetUpdates(budget, updates) ==
    [budget EXCEPT
        !.amount = IF Has(updates, "amount") THEN updates.amount ELSE @,
        !.startDate = IF Has(updates, "startDate") THEN updates.startDate ELSE @,
        !.endDate = IF Has(updates, "endDate") THEN updates.endDate ELSE @,
        !.spent = IF Has(updates, "spent") THEN updates.spent ELSE @,
        !.alertThresholds = IF Has(updates, "alertThresholds")
                            THEN updates.alertThresholds ELSE @,
        !.isActive = IF Has(updates, "isActive") THEN updates.isActive ELSE @,
        !.user = IF Has(updates, "user") THEN updates.user ELSE @]

(* budget.save(): the paths the handler gave another value than the one it
   loaded are written to the stored document; alertThresholds is assigned
   as one object and written whole *)
SaveBudget(stored, loaded, assigned) ==
    [stored EXCEPT
        !.amount = IF assigned.amount # loaded.amount THEN assigned.amount ELSE @,
        !.startDate = IF assigned.startDate # loaded.startDate
                      THEN assigned.startDate ELSE @,
        !.endDate = IF assigned.endDate # loaded.endDate
                    THEN assigned.endDate ELSE @,
        !.spent = IF assigned.spent # loaded.spent THEN assigned.spent ELSE @,
        !.alertThresholds =
            IF assigned.alertThresholds # loaded.alertThresholds
            THEN assigned.alertThresholds ELSE @,
        !.isActive = IF assigned.isActive # loaded.isActive
                     THEN assigned.isActive ELSE @,
        !.user = IF assigned.user # loaded.user THEN assigned.user ELSE @]

(* PUT /api/budgets/:id: the validators, then await Budget.findOne *)
PutBudgetFindOne(u, id, updates) ==
    LET found == { b \in budgets : b._id = id /\ b.user = u }
    IN  /\ IF Has(updates, "amount") /\ updates.amount < 1
           THEN /\ res' = Response(400)
                /\ req' = Request(u)
                /\ UNCHANGED inflight
           ELSE IF found = {}
           THEN /\ res' = Response(404)
                /\ req' = Request(u)
                /\ UNCHANGED inflight
           ELSE /\ inflight' = Append(inflight,
                        NewRequest("putBudget", u, id, updates, "save", found))
                /\ UNCHANGED <<req, res>>
        /\ UNCHANGED <<categories, transactions, budgets, nextId>>

(* PUT /api/budgets/:id: the assignment loop and await budget.save(), which
   runs the validators of the schema and throws when they fail or when the
   document is no longer stored; the handler answers both with 500 *)
PutBudgetSave(i) ==
    LET r == inflight[i]
        budget == CHOOSE b \in r.found : TRUE
        assigned == ApplyBudgetUpdates(budget, r.body)
        stored == { b \in budgets : b._id = budget._id }
    IN  /\ r.op = "putBudget" /\ r.pc = "save"
        /\ IF ~BudgetValid(assigned) \/ stored = {}
           THEN /\ res' = Response(500)
                /\ req' = Request(r.user)
                /\ inflight' = Without(i)
                /\ UNCHANGED budgets
           ELSE /\ budgets' = (budgets \ stored) \cup
                        { SaveBudget(b, budget, assigned) : b \in stored }
                /\ inflight' = [inflight EXCEPT ![i].pc = "populate"]
                /\ UNCHANGED <<req, res>>
        /\ UNCHANGED <<categories, transactions, nextId>>

(* PUT /api/budgets/:id: await budget.populate('category'), then the
   answer *)
PutBudgetPopulate(i) ==
    LET r == inflight[i]
    IN  /\ r.op = "putBudget" /\ r.pc = "populate"
        /\ res' = Response(200)
        /\ req' = Request(r.user)
        /\ inflight' = Without(i)
        /\ UNCHANGED <<categories, transactions, budgets, nextId>>

(* DELETE /api/budgets/:id: await Budget.findOneAndDelete *)
DeleteBudget(u, id) ==
    LET found == { b \in budgets : b._id = id /\ b.user = u }
    IN  /\ IF found = {}
           THEN /\ res' = Response(404)
                /\ UNCHANGED budgets
           ELSE /\ budgets' = budgets \ found
                /\ res' = Response(200)
        /\ req' = Request(u)
        /\ UNCHANGED <<categories, transactions, nextId>>

(* the awaits of the requests in flight, each the step of some request *)
ServePostCategorySave ==
    /\ \E i \in DOMAIN inflight : PostCategorySave(i)
    /\ UNCHANGED <<ui, notifications, localStorage, effects, pagesRead>>

ServePutCategoryFindExisting ==
    /\ \E i \in DOMAIN inflight : PutCategoryFindExisting(i)
    /\ UNCHANGED <<ui, notifications, localStorage, effects, pagesRead>>

ServePutCategorySave ==
    /\ \E i \in DOMAIN inflight : PutCategorySave(i)
    /\ UNCHANGED <<ui, notifications, localStorage, effects, pagesRead>>

ServeDeleteCategoryCount ==
    /\ \E i \in DOMAIN inflight : DeleteCategoryCount(i)
    /\ UNCHANGED <<ui, notifications, localStorage, effects, pagesRead>>

ServeDeleteCategoryWrite ==
    /\ \E i \in DOMAIN inflight : DeleteCategoryWrite(i)
    /\ UNCHANGED <<ui, notifications, localStorage, effects, pagesRead>>

ServePostTransactionSave ==
    /\ \E i \in DOMAIN inflight : PostTransactionSave(i)
    /\ UNCHANGED <<ui, notifications, localStorage, effects, pagesRead>>

ServePostTransactionPopulate ==
    /\ \E i \in DOMAIN inflight : PostTransactionPopulate(i)
    /\ UNCHANGED <<ui, notifications, localStorage, effects, pagesRead>>

ServePutTransactionFindCategory ==
    /\ \E i \in DOMAIN inflight : PutTransactionFindCategory(i)
    /\ UNCHANGED <<ui, notifications, localStorage, effects, pagesRead>>

ServePutTransactionSave ==
    /\ \E i \in DOMAIN inflight : PutTransactionSave(i)
    /\ UNCHANGED <<ui, notifications, localStorage, effects, pagesRead>>

ServePutTransactionPopulate ==
    /\ \E i \in DOMAIN inflight : PutTransactionPopulate(i)
    /\ UNCHANGED <<ui, notifications, localStorage, effects, pagesRead>>

ServeGetBudgetsPopulate ==
    /\ \E i \in DOMAIN inflight : GetBudgetsPopulate(i)
    /\ UNCHANGED <<ui, notifications, localStorage, effects, pagesRead>>

ServePostBudgetFindExisting ==
    /\ \E i \in DOMAIN inflight : PostBudgetFindExisting(i)
    /\ UNCHANGED <<ui, notifications, localStorage, effects, pagesRead>>

ServePostBudgetSave ==
    /\ \E i \in DOMAIN inflight : PostBudgetSave(i)
    /\ UNCHANGED <<ui, notifications, localStorage, effects, pagesRead>>

ServePostBudgetPopulate ==
    /\ \E i \in DOMAIN inflight : PostBudgetPopulate(i)
    /\ UNCHANGED <<ui, notifications, localStorage, effects, pagesRead>>

ServePutBudgetSave ==
    /\ \E i \in DOMAIN inflight : PutBudgetSave(i)
    /\ UNCHANGED <<ui, notifications, localStorage, effects, pagesRead>>

ServePutBudgetPopulate ==
    /\ \E i \in DOMAIN inflight : PutBudgetPopulate(i)
    /\ UNCHANGED <<ui, notifications, localStorage, effects, pagesRead>>

(* no request is being served: the next one is served alone *)
Idle == inflight = NoRequests

----------------------------------------------------------------------------
(* The category and transaction API, the requests served one at a time: the
   awaits of a request are steps of their own, and no other request is taken
   while one is in flight *)

(* AppContent's initial state, with Dashboard's selectedMonth.  A date of the
   UI is the number of its month; CurrentMonth is the month of new Date(). *)
CurrentMonth == 1

(* the tabs of the navigation; renderContent renders the component of
   activeTab and no other *)
TABS == { "dashboard", "add-transaction", "budgets", "reports", "categories" }
(* AppContent's default categories *)
UiCategories ==
    { [id |-> 1, name |-> "Food & Dining", type |-> "expense"],
      [id |-> 2, name |-> "Transportation", type |-> "expense"],
      [id |-> 3, name |-> "Shopping", type |-> "expense"],
      [id |-> 4, name |-> "Entertainment", type |-> "expense"],
      [id |-> 5, name |-> "Bills & Utilities", type |-> "expense"],
      [id |-> 6, name |-> "Healthcare", type |-> "expense"],
      [id |-> 7, name |-> "Salary", type |-> "income"],
      [id |-> 8, name |-> "Freelance", type |-> "income"],
      [id |-> 9, name |-> "Investment", type |-> "income"] }

NoUI == [activeTab |-> "dashboard",
         transactions |-> <<>>, budgets |-> <<>>, categories |-> UiCategories,
         selectedMonth |-> CurrentMonth, nextId |-> 1]

(* JSON.stringify and JSON.parse: the text of a list is held as the list it
   encodes; localStorage.getItem gives null for a key never written *)
JsonStringify(value) == [present |-> TRUE, json |-> value]
JsonParse(item) == item.json
NullItem(empty) == [present |-> FALSE, json |-> empty]

(* AppContent's three saving effects, each one localStorage.setItem of the
   list it depends on *)
SaveEffects(state) ==
    [transactions |-> JsonStringify(state.transactions),
     budgets |-> JsonStringify(state.budgets),
     categories |-> JsonStringify(state.categories)]

(* the three lists of AppContent's state *)
Lists(state) ==
    [transactions |-> state.transactions, budgets |-> state.budgets,
     categories |-> state.categories]

(* no setTransactions, setBudgets or setCategories call is queued *)
NoUpdates ==
    [transactions |-> NullItem(<<>>), budgets |-> NullItem(<<>>),
     categories |-> NullItem({})]

(* React after a commit whose effects have all run: queue holds the effects
   still to run, closure the lists of the render they belong to, updates the
   queued state updates, passes the further runs of the mount effects, opened
   the entries localStorage held when the page was opened *)
NoEffects ==
    [queue |-> <<>>, closure |-> Lists(NoUI), updates |-> NoUpdates,
     passes |-> 0, opened |-> SaveEffects(NoUI)]

InitStores ==
    /\ categories = {}
    /\ transactions = {}
    /\ budgets = {}
    /\ nextId = [cat |-> 1, tx |-> 1, bud |-> 1]
    /\ req = Request("u1")
    /\ res = Response(0)

Init ==
    /\ InitStores
    /\ inflight = NoRequests
    /\ ui = NoUI
    /\ notifications = {}
    /\ localStorage = SaveEffects(NoUI)
    /\ effects = NoEffects
    /\ pagesRead = <<>>

CategoryIds == 1..MaxCategories
TransactionIds == 1..MaxTransactions

(* The bodies of PUT /api/categories/:id, of at most two keys: a field
   outside keys has one fixed value, so that no body is enumerated twice. *)
CategoryUpdates ==
    { b \in [keys : SUBSET {"name", "isActive", "user"},
             name : {<<"a">>, <<"A">>, <<" ">>},
             isActive : BOOLEAN,
             user : Users] :
        /\ Cardinality(b.keys) <= 2
        /\ ~Has(b, "name") => b.name = <<"a">>
        /\ ~Has(b, "isActive") => b.isActive = TRUE
        /\ ~Has(b, "user") => b.user = "u1" }

(* The bodies of PUT /api/transactions/:id, of at most two keys *)
TransactionUpdates ==
    { b \in [keys : SUBSET {"type", "amount", "category", "user"},
             type : Types,
             amount : {0, 1},
             category : CategoryIds,
             date : {1},
             user : Users] :
        /\ Cardinality(b.keys) <= 2
        /\ ~Has(b, "type") => b.type = "income"
        /\ ~Has(b, "amount") => b.amount = 1
        /\ ~Has(b, "category") => b.category = 1
        /\ ~Has(b, "user") => b.user = "u1" }

DoPostCategory ==
    /\ Idle
    /\ nextId.cat <= MaxCategories
    /\ \E u \in Users, name \in InputNames, type \in Types :
          PostCategoryFindOne(u, name, type)
    /\ UNCHANGED <<ui, notifications, localStorage, effects, pagesRead>>

DoPutCategory ==
    /\ Idle
    /\ \E u \in Users, id \in CategoryIds, updates \in CategoryUpdates :
          PutCategoryFindOne(u, id, updates)
    /\ UNCHANGED <<ui, notifications, localStorage, effects, pagesRead>>

DoDeleteCategory ==
    /\ Idle
    /\ \E u \in Users, id \in CategoryIds : DeleteCategoryFindOne(u, id)
    /\ UNCHANGED <<ui, notifications, localStorage, effects, pagesRead>>

DoPostTransaction ==
    /\ Idle
    /\ nextId.tx <= MaxTransactions
    /\ \E u \in Users, type \in Types, amount \in {0, 1},
          category \in CategoryIds :
          PostTransactionFindOne(u, type, amount, category, 1)
    /\ UNCHANGED <<ui, notifications, localStorage, effects, pagesRead>>

DoPutTransaction ==
    /\ Idle
    /\ \E u \in Users, id \in TransactionIds, updates \in TransactionUpdates :
          PutTransactionFindOne(u, id, updates)
    /\ UNCHANGED <<ui, notifications, localStorage, effects, pagesRead>>

DoDeleteTransaction ==
    /\ Idle
    /\ \E u \in Users, id \in TransactionIds : DeleteTransaction(u, id)
    /\ UNCHANGED <<inflight, ui, notifications, localStorage, effects, pagesRead>>

Next ==
    \/ DoPostCategory
    \/ DoPutCategory
    \/ DoDeleteCategory
    \/ DoPostTransaction
    \/ DoPutTransaction
    \/ DoDeleteTransaction
    \/ ServePostCategorySave
    \/ ServePutCategoryFindExisting
    \/ ServePutCategorySave
    \/ ServeDeleteCategoryCount
    \/ ServeDeleteCategoryWrite
    \/ ServePostTransactionSave
    \/ ServePostTransactionPopulate
    \/ ServePutTransactionFindCategory
    \/ ServePutTransactionSave
    \/ ServePutTransactionPopulate

Spec == Init /\ [][Next]_vars

(* C3: no user has two distinct active categories of the same type whose
   names are equal ignoring letter case. *)
C3_ActiveCategoryNamesUnique ==
    \A c, d \in categories :
        (/\ c._id # d._id
         /\ c.user = d.user
         /\ c.type = d.type
         /\ c.isActive
         /\ d.isActive) => ~EqualIgnoreCase(c.name, d.name)

(* C4: each stored transaction's type equals the type of the category it
   references. *)
C4_TransactionTypeMatchesCategory ==
    \A t \in transactions :
        \A c \in categories : c._id = t.category => t.type = c.type

(* The records a user owns *)
RecordsOf(u) ==
    [categories |-> { c \in categories : c.user = u },
     transactions |-> { t \in transactions : t.user = u },
     budgets |-> { b \in budgets : b.user = u }]

SameOwner(old, new) ==
    \A x \in old : \A y \in new : x._id = y._id => x.user = y.user

(* C6: no request changes the owning user of an existing record, and a
   request authenticated as user A leaves the records of every other user B
   as they were. *)
C6_OwnershipKept ==
    [][/\ SameOwner(categories, categories')
       /\ SameOwner(transactions, transactions')
       /\ SameOwner(budgets, budgets')
       /\ \A b \in Users : b # req'.user => RecordsOf(b)' = RecordsOf(b)]_vars

----------------------------------------------------------------------------
(* The budget API next to the transaction API, one request at a time, for a
   user who has an expense category (1) and an income category (2) *)

ExpenseCategory == [_id |-> 1, user |-> "u1", name |-> <<"a">>,
                    type |-> "expense", isActive |-> TRUE]
IncomeCategory == [_id |-> 2, user |-> "u1", name |-> <<"a">>,
                   type |-> "income", isActive |-> TRUE]

InitBudgets ==
    /\ categories = {ExpenseCategory, IncomeCategory}
    /\ transactions = {}
    /\ budgets = {}
    /\ nextId = [cat |-> 3, tx |-> 1, bud |-> 1]
    /\ req = Request("u1")
    /\ res = Response(0)
    /\ inflight = NoRequests
    /\ ui = NoUI
    /\ notifications = {}
    /\ localStorage = SaveEffects(NoUI)
    /\ effects = NoEffects
    /\ pagesRead = <<>>

BudgetIds == 1..MaxBudgets
BudgetTransactionIds == 1..MaxBudgetTransactions
Amounts == 1..MaxAmount

(* The bodies of PUT /api/budgets/:id that move one end of the window or
   switch the budget on and off, and the empty body *)
BudgetWindowUpdates ==
    { b \in [keys : SUBSET {"startDate", "endDate", "isActive"},
             amount : {1},
             startDate : Dates,
             endDate : Dates,
             spent : {0},
             alertThresholds : {DefaultThresholds},
             isActive : BOOLEAN,
             user : {"u1"}] :
        /\ Cardinality(b.keys) <= 1
        /\ ~Has(b, "startDate") => b.startDate = 1
        /\ ~Has(b, "endDate") => b.endDate = 1
        /\ ~Has(b, "isActive") => b.isActive = TRUE }

(* The bodies of PUT /api/transactions/:id that change the amount or the
   date, and the empty body *)
TransactionAmountUpdates ==
    { b \in [keys : SUBSET {"amount", "date"},
             type : {"expense"},
             amount : Amounts,
             category : {1},
             date : Dates,
             user : {"u1"}] :
        /\ Cardinality(b.keys) <= 1
        /\ ~Has(b, "amount") => b.amount = 1
        /\ ~Has(b, "date") => b.date = 1 }

BGetBudgets ==
    /\ Idle
    /\ \E query \in {[period |-> "", active |-> ""],
                      [period |-> "monthly", active |-> "true"]} :
          GetBudgetsFind("u1", query.period, query.active)
    /\ UNCHANGED <<ui, notifications, localStorage, effects, pagesRead>>

BPostBudget ==
    /\ Idle
    /\ nextId.bud <= MaxBudgets
    /\ \E category \in {1, 2}, amount \in {0, 1}, period \in {"weekly", "monthly"},
          startDate \in Dates, endDate \in Dates :
          PostBudgetFindCategory("u1", category, amount, period, startDate, endDate,
                     DefaultThresholds)
    /\ UNCHANGED <<ui, notifications, localStorage, effects, pagesRead>>

BPutBudget ==
    /\ Idle
    /\ \E id \in BudgetIds, updates \in BudgetWindowUpdates :
          PutBudgetFindOne("u1", id, updates)
    /\ UNCHANGED <<ui, notifications, localStorage, effects, pagesRead>>

BDeleteBudget ==
    /\ Idle
    /\ \E id \in BudgetIds : DeleteBudget("u1", id)
    /\ UNCHANGED <<inflight, ui, notifications, localStorage, effects, pagesRead>>

BPostTransaction ==
    /\ Idle
    /\ nextId.tx <= MaxBudgetTransactions
    /\ \E type \in Types, amount \in Amounts, category \in {1, 2}, date \in Dates :
          PostTransactionFindOne("u1", type, amount, category, date)
    /\ UNCHANGED <<ui, notifications, localStorage, effects, pagesRead>>

BPutTransaction ==
    /\ Idle
    /\ \E id \in BudgetTransactionIds, updates \in TransactionAmountUpdates :
          PutTransactionFindOne("u1", id, updates)
    /\ UNCHANGED <<ui, notifications, localStorage, effects, pagesRead>>

BDeleteTransaction ==
    /\ Idle
    /\ \E id \in BudgetTransactionIds : DeleteTransaction("u1", id)
    /\ UNCHANGED <<inflight, ui, notifications, localStorage, effects, pagesRead>>

NextBudgets ==
    \/ BGetBudgets
    \/ BPostBudget
    \/ BPutBudget
    \/ BDeleteBudget
    \/ BPostTransaction
    \/ BPutTransaction
    \/ BDeleteTransaction
    \/ ServeGetBudgetsPopulate
    \/ ServePostBudgetFindExisting
    \/ ServePostBudgetSave
    \/ ServePostBudgetPopulate
    \/ ServePutBudgetSave
    \/ ServePutBudgetPopulate
    \/ ServePostTransactionSave
    \/ ServePostTransactionPopulate
    \/ ServePutTransactionSave
    \/ ServePutTransactionPopulate

SpecBudgets == InitBudgets /\ [][NextBudgets]_vars

RECURSIVE SumAmounts(_)
SumAmounts(docs) ==
    IF docs = {} THEN 0
    ELSE LET d == CHOOSE x \in docs : TRUE
         IN  d.amount + SumAmounts(docs \ {d})

(* the sum of the amounts of the user's expense transactions of the budget's
   category dated within the budget's window, both ends included *)
ExpensesWithin(budget) ==
    SumAmounts({ t \in transactions :
        /\ t.user = budget.user
        /\ t.type = "expense"
        /\ t.category = budget.category
        /\ budget.startDate <= t.date
        /\ t.date <= budget.endDate })

(* C1: the spent value GET /api/budgets reports for a budget is the sum of
   the user's expense transactions of the budget's category dated within
   the budget's window. *)
C1_SpentIsSumOfExpenses ==
    \A i \in 1..Len(res.body) : res.body[i].spent = ExpensesWithin(res.body[i])

Min(a, b) == IF a <= b THEN a ELSE b

(* two windows intersect: some day lies in both *)
WindowsIntersect(b, c) ==
    Max(b.startDate, c.startDate) <= Min(b.endDate, c.endDate)

(* C2: no two active budgets of the same user, category and period have
   intersecting windows. *)
C2_NoOverlappingBudgets ==
    \A b, c \in budgets :
        (/\ b._id # c._id
         /\ b.user = c.user
         /\ b.category = c.category
         /\ b.period = c.period
         /\ b.isActive
         /\ c.isActive) => ~WindowsIntersect(b, c)

----------------------------------------------------------------------------
(* One budget document read back through GET /api/budgets while PUT
   /api/budgets/:id sets its amount, its spent value and its thresholds *)

FirstBudget == [_id |-> 1, user |-> "u1", category |-> 1, amount |-> 1,
                period |-> "monthly", startDate |-> 1, endDate |-> 1,
                spent |-> 0, alertThresholds |-> DefaultThresholds,
                isActive |-> TRUE]

(* the state after POST /api/budgets has stored FirstBudget *)
InitBudgetModel ==
    /\ categories = {ExpenseCategory}
    /\ transactions = {}
    /\ budgets = {FirstBudget}
    /\ nextId = [cat |-> 2, tx |-> 1, bud |-> 2]
    /\ req = Request("u1")
    /\ res = Response(201)
    /\ inflight = NoRequests
    /\ ui = NoUI
    /\ notifications = {}
    /\ localStorage = SaveEffects(NoUI)
    /\ effects = NoEffects
    /\ pagesRead = <<>>

(* threshold percentages; -1 and 101 are out of the schema's range *)
ThresholdValues == {0, 50, 80, 95, 100}
ThresholdInputs == ThresholdValues \cup {-1, 101}

(* The bodies of PUT /api/budgets/:id that set amount, spent or thresholds *)
BudgetAmountUpdates ==
    { b \in [keys : {{"amount"}, {"spent"}, {"alertThresholds"}},
             amount : 0..MaxBudgetAmount,
             startDate : {1},
             endDate : {1},
             spent : -1..MaxSpent,
             alertThresholds : [warning : ThresholdInputs,
                                critical : ThresholdInputs],
             isActive : {TRUE},
             user : {"u1"}] :
        /\ ~Has(b, "amount") => b.amount = 1
        /\ ~Has(b, "spent") => b.spent = 0
        /\ ~Has(b, "alertThresholds") => b.alertThresholds = DefaultThresholds
        /\ (b.alertThresholds.warning \notin ThresholdValues
                => b.alertThresholds.critical = DefaultCritical)
        /\ (b.alertThresholds.critical \notin ThresholdValues
                => b.alertThresholds.warning = DefaultWarning) }

MGetBudgets ==
    /\ Idle
    /\ GetBudgetsFind("u1", "", "")
    /\ UNCHANGED <<ui, notifications, localStorage, effects, pagesRead>>

MPutBudget ==
    /\ Idle
    /\ \E updates \in BudgetAmountUpdates : PutBudgetFindOne("u1", 1, updates)
    /\ UNCHANGED <<ui, notifications, localStorage, effects, pagesRead>>

NextBudgetModel ==
    \/ MGetBudgets
    \/ MPutBudget
    \/ ServeGetBudgetsPopulate
    \/ ServePutBudgetSave
    \/ ServePutBudgetPopulate

SpecBudgetModel == InitBudgetModel /\ [][NextBudgetModel]_vars

(* C7: the status of a budget is exceeded when percentageUsed >= 100,
   otherwise critical when percentageUsed >= alertThresholds.critical,
   otherwise warning when percentageUsed >= alertThresholds.warning,
   otherwise good; a budget at exactly 100% is exceeded also when the
   critical threshold is 100. *)
C7_StatusByThresholds ==
    \A i \in 1..Len(res.body) :
        LET b == res.body[i]
            p == b.percentageUsed
        IN  /\ PctGE(p, 100) => b.status = "exceeded"
            /\ (~PctGE(p, 100) /\ PctGE(p, b.alertThresholds.critical))
                    => b.status = "critical"
            /\ (/\ ~PctGE(p, 100)
                /\ ~PctGE(p, b.alertThresholds.critical)
                /\ PctGE(p, b.alertThresholds.warning)) => b.status = "warning"
            /\ (/\ ~PctGE(p, 100)
                /\ ~PctGE(p, b.alertThresholds.critical)
                /\ ~PctGE(p, b.alertThresholds.warning)) => b.status = "good"
            /\ (b.amount > 0 /\ b.spent = b.amount) => b.status = "exceeded"

(* C7 witness: a budget at exactly 100% whose critical threshold is 100 is
   reported exceeded *)
C7_Witness ==
    \E i \in 1..Len(res.body) :
        /\ res.body[i].spent = res.body[i].amount
        /\ res.body[i].alertThresholds.critical = 100
        /\ res.body[i].status = "exceeded"

(* C8: remaining is max(0, amount - spent): amount - spent while spent does
   not exceed amount, 0 beyond, never negative. *)
C8_RemainingNeverNegative ==
    \A i \in 1..Len(res.body) :
        LET b == res.body[i]
        IN  /\ b.remaining >= 0
            /\ b.spent <= b.amount => b.remaining = b.amount - b.spent
            /\ b.spent > b.amount => b.remaining = 0

(* C8 witness: a budget whose spent exceeds its amount is reported with
   remaining 0 *)
C8_Witness ==
    \E i \in 1..Len(res.body) :
        /\ res.body[i].spent > res.body[i].amount
        /\ res.body[i].remaining = 0

----------------------------------------------------------------------------
(* The React application: AppContent's transactions and budgets, the forms
   that change them and the budget status BudgetManager and Dashboard derive *)

(* categories.find(c => c.id === id)?.name || 'Unknown' *)
UiCategoryName(id) ==
    LET found == { c \in ui.categories : c.id = id }
    IN  IF found = {} \/ (CHOOSE c \in found : TRUE).name = ""
        THEN "Unknown"
        ELSE (CHOOSE c \in found : TRUE).name

(* .reduce((sum, t) => sum + t.amount, 0) *)
RECURSIVE SumSeq(_)
SumSeq(ts) == IF ts = <<>> THEN 0 ELSE Head(ts).amount + SumSeq(Tail(ts))

(* transactions.filter(isWithinInterval(date, startOfMonth .. endOfMonth)) *)
MonthTransactions(month) ==
    SelectSeq(ui.transactions, LAMBDA t : t.date = month)

(* percentage > 100 ? 'over' : percentage > 80 ? 'warning' : 'good' *)
UiStatus(percentage) ==
    IF PctGT(percentage, 100) THEN "over"
    ELSE IF PctGT(percentage, 80) THEN "warning"
    ELSE "good"

(* BudgetManager: budgetStatus, over the transactions of the current month *)
BudgetManagerBudgetStatus ==
    LET currentMonthTransactions == MonthTransactions(CurrentMonth)
        StatusOf(budget) ==
            LET spent == SumSeq(SelectSeq(currentMonthTransactions,
                            LAMBDA t : t.type = "expense"
                                       /\ t.categoryId = budget.categoryId))
                percentage == IF budget.amount > 0
                              THEN [num |-> spent * 100, den |-> budget.amount]
                              ELSE [num |-> 0, den |-> 1]
            IN  [id |-> budget.id,
                 categoryId |-> budget.categoryId,
                 amount |-> budget.amount,
                 spent |-> spent,
                 remaining |-> budget.amount - spent,
                 percentage |-> percentage,
                 categoryName |-> UiCategoryName(budget.categoryId),
                 status |-> UiStatus(percentage)]
    IN  [i \in 1..Len(ui.budgets) |-> StatusOf(ui.budgets[i])]

(* Dashboard: budgetStatus, over the transactions of the selected month *)
DashboardBudgetStatus ==
    LET currentMonth == MonthTransactions(ui.selectedMonth)
        StatusOf(budget) ==
            LET spent == SumSeq(SelectSeq(currentMonth,
                            LAMBDA t : t.type = "expense"
                                       /\ t.categoryId = budget.categoryId))
                percentage == IF budget.amount > 0
                              THEN [num |-> spent * 100, den |-> budget.amount]
                              ELSE [num |-> 0, den |-> 1]
            IN  [id |-> budget.id,
                 categoryId |-> budget.categoryId,
                 amount |-> budget.amount,
                 spent |-> spent,
                 remaining |-> budget.amount - spent,
                 percentage |-> percentage,
                 categoryName |-> UiCategoryName(budget.categoryId),
                 status |-> UiStatus(percentage)]
    IN  [i \in 1..Len(ui.budgets) |-> StatusOf(ui.budgets[i])]

(* String.prototype.trim and toLowerCase on the text of a form field *)
RECURSIVE UiTrimLeft(_)
UiTrimLeft(text) ==
    IF Len(text) = 0 THEN text
    ELSE IF SubSeq(text, 1, 1) = " "
    THEN UiTrimLeft(SubSeq(text, 2, Len(text)))
    ELSE text

RECURSIVE UiTrimRight(_)
UiTrimRight(text) ==
    IF Len(text) = 0 THEN text
    ELSE IF SubSeq(text, Len(text), Len(text)) = " "
    THEN UiTrimRight(SubSeq(text, 1, Len(text) - 1))
    ELSE text

UiTrim(text) == UiTrimRight(UiTrimLeft(text))

UpperCaseLetters == "ABCDEFGHIJKLMNOPQRSTUVWXYZ"
LowerCaseLetters == "abcdefghijklmnopqrstuvwxyz"

UiLowerChar(c) ==
    LET letters == DOMAIN [i \in 1..Len(UpperCaseLetters) |-> i]
    IN  IF \E i \in letters : SubSeq(UpperCaseLetters, i, i) = c
        THEN LET i == CHOOSE i \in letters :
                            SubSeq(UpperCaseLetters, i, i) = c
             IN  SubSeq(LowerCaseLetters, i, i)
        ELSE c

RECURSIVE UiToLowerCase(_)
UiToLowerCase(text) ==
    IF Len(text) = 0 THEN text
    ELSE UiLowerChar(SubSeq(text, 1, 1))
            \o UiToLowerCase(SubSeq(text, 2, Len(text)))

(* prev.map(x => x.id === id ? replacement : x) *)
ReplaceById(xs, id, replacement) ==
    [i \in 1..Len(xs) |-> IF xs[i].id = id THEN replacement ELSE xs[i]]

(* prev.filter(x => x.id !== id) *)
RemoveById(xs, id) == SelectSeq(xs, LAMBDA x : x.id # id)

(* a navigation button, the form's back arrow and its onBack: setActiveTab.
   The component of the tab left is unmounted and the one of the tab entered
   is mounted afresh, Dashboard with selectedMonth the month of the clock;
   selectedMonth holds that month while Dashboard is not mounted. *)
UiSetActiveTab(tab) ==
    /\ ui' = [ui EXCEPT !.activeTab = tab,
                        !.selectedMonth = IF tab = ui.activeTab THEN @
                                          ELSE CurrentMonth]
    /\ UNCHANGED <<categories, transactions, budgets, nextId, req, res, inflight,
                 notifications, localStorage, effects, pagesRead>>

(* the category select of a form, and the date field of TransactionForm,
   left empty *)
NoCategory == 0
NoDate == 0

(* TransactionForm.validateForm *)
TransactionFormValid(amount, description, categoryId, date) ==
    /\ amount > 0
    /\ Len(UiTrim(description)) > 0
    /\ categoryId # NoCategory
    /\ date # NoDate

(* TransactionForm.handleSubmit and addTransaction; the id is Date.now().  The
   category select offers the categories of the form's type; a form accepted
   ends with onBack(), which opens the Dashboard. *)
UiAddTransaction(type, amount, description, categoryId, date) ==
    /\ ui.activeTab = "add-transaction"
    /\ \/ categoryId = NoCategory
       \/ \E c \in ui.categories : c.id = categoryId /\ c.type = type
    /\ IF ~TransactionFormValid(amount, description, categoryId, date)
       THEN UNCHANGED ui
       ELSE ui' = [ui EXCEPT
                !.transactions = Append(@, [id |-> ui.nextId, type |-> type,
                                            amount |-> amount,
                                            description |-> description,
                                            categoryId |-> categoryId,
                                            date |-> date]),
                !.nextId = @ + 1,
                !.activeTab = "dashboard",
                !.selectedMonth = CurrentMonth]
    /\ localStorage' = SaveEffects(ui')
    /\ UNCHANGED <<categories, transactions, budgets, nextId, req, res, inflight,
                 notifications, effects, pagesRead>>

(* Dashboard's edit button: onEditTransaction(transaction.id, transaction) *)
UiEditTransaction(id) ==
    /\ ui.activeTab = "dashboard"
    /\ \E i \in 1..Len(ui.transactions) :
          /\ ui.transactions[i].id = id
          /\ ui' = [ui EXCEPT !.transactions =
                        ReplaceById(@, id, ui.transactions[i])]
    /\ localStorage' = SaveEffects(ui')
    /\ UNCHANGED <<categories, transactions, budgets, nextId, req, res, inflight,
                 notifications, effects, pagesRead>>

(* Dashboard's delete button: deleteTransaction *)
UiDeleteTransaction(id) ==
    /\ ui.activeTab = "dashboard"
    /\ \E i \in 1..Len(ui.transactions) : ui.transactions[i].id = id
    /\ ui' = [ui EXCEPT !.transactions = RemoveById(@, id)]
    /\ localStorage' = SaveEffects(ui')
    /\ UNCHANGED <<categories, transactions, budgets, nextId, req, res, inflight,
                 notifications, effects, pagesRead>>

(* BudgetManager.validateForm; editing is the id of the budget being edited,
   0 for a new budget *)
BudgetFormValid(categoryId, amount, editing) ==
    /\ categoryId # NoCategory
    /\ amount > 0
    /\ ~\E i \in 1..Len(ui.budgets) :
          /\ ui.budgets[i].categoryId = categoryId
          /\ ui.budgets[i].id # editing

(* BudgetManager.handleSubmit for a new budget, and addBudget *)
UiAddBudget(categoryId, amount) ==
    /\ ui.activeTab = "budgets"
    /\ IF ~BudgetFormValid(categoryId, amount, 0)
       THEN UNCHANGED ui
       ELSE ui' = [ui EXCEPT
                !.budgets = Append(@, [id |-> ui.nextId,
                                       categoryId |-> categoryId,
                                       amount |-> amount,
                                       period |-> "monthly"]),
                !.nextId = @ + 1]
    /\ localStorage' = SaveEffects(ui')
    /\ UNCHANGED <<categories, transactions, budgets, nextId, req, res, inflight,
                 notifications, effects, pagesRead>>

(* BudgetManager.handleSubmit for the budget being edited, and updateBudget *)
UiUpdateBudget(id, categoryId, amount) ==
    /\ ui.activeTab = "budgets"
    /\ \E i \in 1..Len(ui.budgets) : ui.budgets[i].id = id
    /\ IF ~BudgetFormValid(categoryId, amount, id)
       THEN UNCHANGED ui
       ELSE ui' = [ui EXCEPT !.budgets =
                ReplaceById(@, id, [id |-> id, categoryId |-> categoryId,
                                    amount |-> amount, period |-> "monthly"])]
    /\ localStorage' = SaveEffects(ui')
    /\ UNCHANGED <<categories, transactions, budgets, nextId, req, res, inflight,
                 notifications, effects, pagesRead>>

(* BudgetManager's delete button: deleteBudget *)
UiDeleteBudget(id) ==
    /\ ui.activeTab = "budgets"
    /\ \E i \in 1..Len(ui.budgets) : ui.budgets[i].id = id
    /\ ui' = [ui EXCEPT !.budgets = RemoveById(@, id)]
    /\ localStorage' = SaveEffects(ui')
    /\ UNCHANGED <<categories, transactions, budgets, nextId, req, res, inflight,
                 notifications, effects, pagesRead>>

(* CategoryManager.validateForm; editing is the id of the category being
   edited, 0 for a new category *)
CategoryFormValid(name, type, editing) ==
    /\ Len(UiTrim(name)) >= 2
    /\ ~\E c \in ui.categories :
          /\ UiToLowerCase(c.name) = UiToLowerCase(UiTrim(name))
          /\ c.type = type
          /\ (editing = 0 \/ c.id # editing)

(* CategoryManager.handleSubmit for a new category, and addCategory; the id is
   Date.now(), which no default category has *)
UiAddCategory(name, type) ==
    /\ ui.activeTab = "categories"
    /\ IF ~CategoryFormValid(name, type, 0)
       THEN UNCHANGED ui
       ELSE ui' = [ui EXCEPT
                !.categories = @ \cup
                    {[id |-> Cardinality(UiCategories) + ui.nextId,
                      name |-> UiTrim(name), type |-> type]},
                !.nextId = @ + 1]
    /\ localStorage' = SaveEffects(ui')
    /\ UNCHANGED <<categories, transactions, budgets, nextId, req, res, inflight,
                 notifications, effects, pagesRead>>

(* CategoryManager.handleSubmit for the category being edited, and
   updateCategory *)
UiUpdateCategory(id, name, type) ==
    /\ ui.activeTab = "categories"
    /\ \E c \in ui.categories : c.id = id
    /\ IF ~CategoryFormValid(name, type, id)
       THEN UNCHANGED ui
       ELSE ui' = [ui EXCEPT !.categories =
                { IF c.id = id
                  THEN [id |-> id, name |-> UiTrim(name), type |-> type]
                  ELSE c : c \in @ }]
    /\ localStorage' = SaveEffects(ui')
    /\ UNCHANGED <<categories, transactions, budgets, nextId, req, res, inflight,
                 notifications, effects, pagesRead>>

(* CategoryManager's delete button: deleteCategory *)
UiDeleteCategory(id) ==
    /\ ui.activeTab = "categories"
    /\ \E c \in ui.categories : c.id = id
    /\ ui' = [ui EXCEPT !.categories = { c \in @ : c.id # id }]
    /\ localStorage' = SaveEffects(ui')
    /\ UNCHANGED <<categories, transactions, budgets, nextId, req, res, inflight,
                 notifications, effects, pagesRead>>

(* Dashboard's month selector: setSelectedMonth *)
UiSelectMonth(month) ==
    /\ ui.activeTab = "dashboard"
    /\ ui' = [ui EXCEPT !.selectedMonth = month]
    /\ UNCHANGED <<categories, transactions, budgets, nextId, req, res, inflight,
                 notifications, localStorage, effects, pagesRead>>

InitUI ==
    /\ InitStores
    /\ inflight = NoRequests
    /\ ui = NoUI
    /\ notifications = {}
    /\ localStorage = SaveEffects(NoUI)
    /\ effects = NoEffects
    /\ pagesRead = <<>>

UiIds == 1..MaxUiIds
Months == 1..MaxMonth
UiAmounts == 0..MaxUiAmount

(* the descriptions typed into the transaction form *)
UiDescriptions == { "", " ", "lunch" }

UAddTransaction ==
    /\ ui.nextId <= MaxUiIds
    /\ \E type \in Types, amount \in UiAmounts,
          description \in UiDescriptions,
          categoryId \in {NoCategory, 1, 7}, date \in Months \cup {NoDate} :
          UiAddTransaction(type, amount, description, categoryId, date)

UAddBudget ==
    /\ ui.nextId <= MaxUiIds
    /\ \E categoryId \in {NoCategory, 1, 2}, amount \in UiAmounts :
          UiAddBudget(categoryId, amount)

(* the names typed into the category form *)
UiFormNames == { "Pets", " food & dining ", "P" }

UAddCategory ==
    /\ ui.nextId <= MaxUiIds
    /\ \E name \in UiFormNames : UiAddCategory(name, "expense")

NextUI ==
    \/ UAddTransaction
    \/ \E id \in UiIds : UiEditTransaction(id)
    \/ \E id \in UiIds : UiDeleteTransaction(id)
    \/ UAddBudget
    \/ \E id \in UiIds, categoryId \in {NoCategory, 1, 2},
          amount \in UiAmounts : UiUpdateBudget(id, categoryId, amount)
    \/ \E id \in UiIds : UiDeleteBudget(id)
    \/ UAddCategory
    \/ \E name \in UiFormNames : UiUpdateCategory(2, name, "expense")
    \/ UiDeleteCategory(2)
    \/ \E month \in Months : UiSelectMonth(month)
    \/ \E tab \in TABS : UiSetActiveTab(tab)

SpecUI == InitUI /\ [][NextUI]_vars

(* the entries of both derivations *)
UiBudgetStatusEntries ==
    { BudgetManagerBudgetStatus[i] : i \in 1..Len(ui.budgets) } \cup
    { DashboardBudgetStatus[i] : i \in 1..Len(ui.budgets) }

(* C9: the remaining value of the UI's budget status is max(0, amount -
   spent), never negative, also when the month's spending exceeds the
   budget amount. *)
C9_UiRemainingNeverNegative ==
    \A b \in UiBudgetStatusEntries :
        /\ b.remaining >= 0
        /\ b.remaining = Max(0, b.amount - b.spent)

(* C10: in the UI's budget status a budget whose spending equals its amount
   (exactly 100% used) is classified as over budget. *)
C10_UiExactlyFullIsOver ==
    \A b \in UiBudgetStatusEntries :
        (b.amount > 0 /\ b.spent = b.amount) => b.status = "over"

----------------------------------------------------------------------------
(* Concurrent requests: the category and transaction routes with up to
   MaxRequests requests in flight, the awaits of different requests
   interleaving in any order *)

NoBody == [keys |-> {}, type |-> "expense", amount |-> 1, category |-> 1,
           date |-> 1, user |-> "u1"]

OtherExpenseCategory == [_id |-> 2, user |-> "u1", name |-> <<"a", "a">>,
                         type |-> "expense", isActive |-> TRUE]
FirstTransaction == [_id |-> 1, user |-> "u1", type |-> "expense",
                     amount |-> 1, category |-> 1, date |-> 1]

(* the state after two POST /api/categories and a POST /api/transactions *)
InitRace ==
    /\ categories = {ExpenseCategory, OtherExpenseCategory}
    /\ transactions = {FirstTransaction}
    /\ budgets = {}
    /\ nextId = [cat |-> 3, tx |-> 2, bud |-> 1]
    /\ req = Request("u1")
    /\ res = Response(201)
    /\ inflight = NoRequests
    /\ ui = NoUI
    /\ notifications = {}
    /\ localStorage = SaveEffects(NoUI)
    /\ effects = NoEffects
    /\ pagesRead = <<>>

(* the POST /api/budgets requests in flight that have yet to build their
   budget *)
PendingPostBudgets ==
    Cardinality({ i \in DOMAIN inflight :
        inflight[i].op = "postBudget" /\ inflight[i].pc = "findExisting" })

(* the bodies of PUT /api/categories/:id of the race: a new name *)
RaceCategoryUpdates ==
    { b \in CategoryUpdates :
        b.keys = {"name"} /\ b.name \in {<<"a">>, <<"A">>} }

(* the bodies of PUT /api/transactions/:id of the race: another category *)
RaceTransactionUpdates ==
    { [NoBody EXCEPT !.keys = {"category"}, !.category = c] : c \in {1, 2} }

RPostCategory ==
    /\ Len(inflight) < MaxRequests
    /\ nextId.cat <= 2 + MaxRequests
    /\ \E name \in {<<"a">>, <<"A">>} :
          PostCategoryFindOne("u1", name, "expense")
    /\ UNCHANGED <<ui, notifications, localStorage, effects, pagesRead>>

RPutCategory ==
    /\ Len(inflight) < MaxRequests
    /\ \E id \in {1, 2}, updates \in RaceCategoryUpdates :
          PutCategoryFindOne("u1", id, updates)
    /\ UNCHANGED <<ui, notifications, localStorage, effects, pagesRead>>

RDeleteCategory ==
    /\ Len(inflight) < MaxRequests
    /\ \E id \in {1, 2} : DeleteCategoryFindOne("u1", id)
    /\ UNCHANGED <<ui, notifications, localStorage, effects, pagesRead>>

RPostTransaction ==
    /\ Len(inflight) < MaxRequests
    /\ nextId.tx <= MaxRequests
    /\ \E category \in {1, 2} :
          PostTransactionFindOne("u1", "expense", 1, category, 1)
    /\ UNCHANGED <<ui, notifications, localStorage, effects, pagesRead>>

RPutTransaction ==
    /\ Len(inflight) < MaxRequests
    /\ \E updates \in RaceTransactionUpdates :
          PutTransactionFindOne("u1", 1, updates)
    /\ UNCHANGED <<ui, notifications, localStorage, effects, pagesRead>>

RDeleteTransaction ==
    /\ Len(inflight) < MaxRequests
    /\ DeleteTransaction("u1", 1)
    /\ UNCHANGED <<inflight, ui, notifications, localStorage, effects, pagesRead>>

NextRace ==
    \/ RPostCategory
    \/ RPutCategory
    \/ RDeleteCategory
    \/ RPostTransaction
    \/ RPutTransaction
    \/ RDeleteTransaction
    \/ ServePostCategorySave
    \/ ServePutCategoryFindExisting
    \/ ServePutCategorySave
    \/ ServeDeleteCategoryCount
    \/ ServeDeleteCategoryWrite
    \/ ServePostTransactionSave
    \/ ServePostTransactionPopulate
    \/ ServePutTransactionFindCategory
    \/ ServePutTransactionSave
    \/ ServePutTransactionPopulate

SpecRace == InitRace /\ [][NextRace]_vars

(* C5: under any interleaving of DELETE /api/categories/:id with POST and
   PUT /api/transactions, every stored transaction references a category
   record that still exists, active or deactivated. *)
C5_NoOrphanTransactions ==
    \A t \in transactions : \E c \in categories : c._id = t.category

----------------------------------------------------------------------------
(* Dates of the reports.  An instant is numbered by its place in the
   calendar: the months since the January of the first of ReportYears, then
   the half days since the month began; an even half day is the midnight
   (00:00:00.000) that opens a day, the odd one after it the noon of that
   day.  The numbering keeps the order of the instants.  The server's time
   zone is UTC, so that new Date(y, m, d) and $month read the same calendar. *)

ReportYears == {2023, 2024}
BaseYear == CHOOSE y \in ReportYears : \A z \in ReportYears : y <= z

HalfDaysPerMonth == 2 * 31
MonthsPerYear == 12

(* new Date(year, monthIndex, day) with month = monthIndex + 1: the midnight
   that opens the day *)
NewDate(year, month, day) ==
    ((year - BaseYear) * MonthsPerYear + (month - 1)) * HalfDaysPerMonth
        + 2 * (day - 1)

Noon(year, month, day) == NewDate(year, month, day) + 1

(* getFullYear / $year *)
YearOf(date) == BaseYear + (date \div (HalfDaysPerMonth * MonthsPerYear))

(* $month: 1 for January to 12 for December *)
MonthOf(date) == ((date \div HalfDaysPerMonth) % MonthsPerYear) + 1

(* the dates the transactions of the reports carry *)
ReportDates == { Noon(2023, 2, 14), Noon(2023, 12, 31) }

----------------------------------------------------------------------------
(* backend/routes/reports.js and GET /api/transactions/stats.  A query is a
   record whose keys are the parameters the request carries; an average is
   the pair <<sum, count>>. *)

ReportRequest(u, route, query) == [user |-> u, route |-> route, query |-> query]

(* req.user.id: the string of the requester's ObjectId.  The filter of a
   find, findOne or countDocuments is cast to the schema, where the string
   stands for the ObjectId; the $match of an aggregate is not cast, and
   there the string is compared with the ObjectId the document stores. *)
IdString(u) == "'" \o u \o "'"

(* filter = { user: req.user.id }, with date.$gte and date.$lte for the
   dates given, as the $match of an aggregate *)
DateFilter(u, query) ==
    { t \in transactions :
        /\ t.user = IdString(u)
        /\ Has(query, "startDate") => t.date >= query.startDate
        /\ Has(query, "endDate") => t.date <= query.endDate }

ZeroGroup == [total |-> 0, count |-> 0, avgAmount |-> <<0, 1>>]

(* without the initial result: a type with no transaction has no entry, and
   what the handler reads of it is not a number (the pair <<0, 0>>) *)
GroupByTypeNoInitial(docs) ==
    [type \in Types |->
        LET group == { t \in docs : t.type = type }
        IN  [total |-> SumAmounts(group),
             count |-> Cardinality(group),
             avgAmount |-> <<SumAmounts(group), Cardinality(group)>>]]

(* $group by type with $sum, $sum: 1 and $avg, over the initial result *)
GroupByType(docs) ==
    [type \in Types |->
        LET group == { t \in docs : t.type = type }
        IN  IF group = {} THEN ZeroGroup
            ELSE [total |-> SumAmounts(group),
                  count |-> Cardinality(group),
                  avgAmount |-> <<SumAmounts(group), Cardinality(group)>>]]

(* the result of GET /api/reports/summary *)
Summary(u, query) ==
    LET result == GroupByType(DateFilter(u, query))
    IN  [income |-> result["income"],
         expense |-> result["expense"],
         balance |-> result["income"].total - result["expense"].total,
         totalTransactions |-> result["income"].count + result["expense"].count]

(* the result of GET /api/transactions/stats *)
TransactionStats(u, query) ==
    LET result == GroupByType(DateFilter(u, query))
    IN  [income |-> result["income"],
         expense |-> result["expense"],
         balance |-> result["income"].total - result["expense"].total,
         totalTransactions |-> result["income"].count + result["expense"].count]

(* $lookup from categories by _id *)
CategoryInfo(t) == { c \in categories : c._id = t.category }

(* $match, $lookup, $unwind (a document whose categoryInfo is empty is
   dropped) and $group by category of GET /api/reports/category-breakdown *)
BreakdownGroups(u, query) ==
    LET type == IF Has(query, "type") THEN query.type ELSE "expense"
        matched == { t \in DateFilter(u, query) : t.type = type }
        unwound == { t \in matched : CategoryInfo(t) # {} }
    IN  { LET group == { t \in unwound : t.category = id }
              first == CHOOSE c \in categories : c._id = id
          IN  [_id |-> id, name |-> first.name, color |-> first.color,
               total |-> SumAmounts(group), count |-> Cardinality(group),
               avgAmount |-> <<SumAmounts(group), Cardinality(group)>>]
          : id \in { t.category : t \in unwound } }

(* $sort: { total: -1 }: every order of the groups with totals descending *)
SortByTotal(groups) ==
    { body \in [1..Cardinality(groups) -> groups] :
        /\ \A i, j \in DOMAIN body : i # j => body[i] # body[j]
        /\ \A i, j \in DOMAIN body : i < j => body[i].total >= body[j].total }

MonthNames == <<"Jan", "Feb", "Mar", "Apr", "May", "Jun",
                "Jul", "Aug", "Sep", "Oct", "Nov", "Dec">>

(* new Date().getFullYear() *)
CurrentYear == BaseYear

(* $match of GET /api/reports/monthly-trends: user: req.user.id and the
   dates from new Date(year, 0, 1) to new Date(year, 11, 31) *)
TrendMatched(u, query) ==
    LET year == IF Has(query, "year") THEN query.year ELSE CurrentYear
        startDate == NewDate(year, 1, 1)
        endDate == NewDate(year, 12, 31)
    IN  { t \in transactions :
            /\ t.user = IdString(u)
            /\ t.date >= startDate
            /\ t.date <= endDate }

(* the two $group stages for one month, and the entry made of them *)
TrendEntry(matched, index) ==
    LET income == { t \in matched :
                      MonthOf(t.date) = index /\ t.type = "income" }
        expense == { t \in matched :
                       MonthOf(t.date) = index /\ t.type = "expense" }
    IN  [month |-> MonthNames[index],
         income |-> SumAmounts(income),
         expense |-> SumAmounts(expense),
         balance |-> SumAmounts(income) - SumAmounts(expense),
         incomeCount |-> Cardinality(income),
         expenseCount |-> Cardinality(expense)]

(* the aggregate's own output, sorted by month: only the months found *)
MonthlyTrendsUnfilled(u, query) ==
    SelectSeq([index \in 1..Len(MonthNames) |->
                    TrendEntry(TrendMatched(u, query), index)],
              LAMBDA entry : entry.incomeCount + entry.expenseCount > 0)

(* the result of GET /api/reports/monthly-trends: monthNames.map *)
MonthlyTrends(u, query) ==
    [index \in 1..Len(MonthNames) |->
        TrendEntry(TrendMatched(u, query), index)]

GetSummary(u, query) ==
    /\ res' = ResponseWith(200, Summary(u, query))
    /\ req' = ReportRequest(u, "summary", query)
    /\ UNCHANGED <<categories, transactions, budgets, nextId>>

GetTransactionStats(u, query) ==
    /\ res' = ResponseWith(200, TransactionStats(u, query))
    /\ req' = ReportRequest(u, "stats", query)
    /\ UNCHANGED <<categories, transactions, budgets, nextId>>

GetCategoryBreakdown(u, query) ==
    /\ \E breakdown \in SortByTotal(BreakdownGroups(u, query)) :
          res' = ResponseWith(200, breakdown)
    /\ req' = ReportRequest(u, "category-breakdown", query)
    /\ UNCHANGED <<categories, transactions, budgets, nextId>>

GetMonthlyTrends(u, query) ==
    /\ res' = ResponseWith(200, MonthlyTrends(u, query))
    /\ req' = ReportRequest(u, "monthly-trends", query)
    /\ UNCHANGED <<categories, transactions, budgets, nextId>>

----------------------------------------------------------------------------
(* The reports next to the routes that change what they read.  The
   categories are those of three POST /api/categories of u1, with the colors
   the requests gave. *)

FoodCategory == [_id |-> 1, user |-> "u1", name |-> <<"a">>,
                 type |-> "expense", isActive |-> TRUE, color |-> "#ef4444"]
RentCategory == [_id |-> 2, user |-> "u1", name |-> <<"b">>,
                 type |-> "expense", isActive |-> TRUE, color |-> "#f97316"]
SalaryCategory == [_id |-> 3, user |-> "u1", name |-> <<"c">>,
                   type |-> "income", isActive |-> TRUE, color |-> "#10b981"]

InitReports ==
    /\ categories = {FoodCategory, RentCategory, SalaryCategory}
    /\ transactions = {}
    /\ budgets = {}
    /\ nextId = [cat |-> 4, tx |-> 1, bud |-> 1]
    /\ req = Request("u1")
    /\ res = Response(201)
    /\ inflight = NoRequests
    /\ ui = NoUI
    /\ notifications = {}
    /\ localStorage = SaveEffects(NoUI)
    /\ effects = NoEffects
    /\ pagesRead = <<>>

ReportCategoryIds == {1, 2, 3}
ReportAmounts == {1, 2}

NoQuery == [keys |-> {}, startDate |-> 0, endDate |-> 0,
            type |-> "expense", year |-> BaseYear]

(* the query strings of the report requests *)
DateQueries ==
    { NoQuery,
      [NoQuery EXCEPT !.keys = {"startDate", "endDate"},
                      !.startDate = NewDate(2023, 1, 1),
                      !.endDate = NewDate(2023, 12, 31)],
      [NoQuery EXCEPT !.keys = {"startDate"},
                      !.startDate = NewDate(2024, 1, 1)] }

BreakdownQueries ==
    { NoQuery,
      [NoQuery EXCEPT !.keys = {"type", "startDate", "endDate"},
                      !.type = "income",
                      !.startDate = NewDate(2023, 1, 1),
                      !.endDate = NewDate(2023, 12, 31)],
      [NoQuery EXCEPT !.keys = {"startDate"},
                      !.startDate = NewDate(2024, 1, 1)] }

TrendQueries ==
    { NoQuery, [NoQuery EXCEPT !.keys = {"year"}, !.year = 2024] }

(* the bodies of PUT /api/transactions/:id under the reports *)
ReportTransactionUpdates ==
    { [NoBody EXCEPT !.keys = {"user"}, !.user = "u2"] }

ReportPostTransaction ==
    /\ Idle
    /\ nextId.tx <= MaxReportRecords
    /\ \E type \in Types, amount \in ReportAmounts,
          category \in ReportCategoryIds :
          PostTransactionFindOne("u1", type, amount, category, Noon(2023, 2, 14))
    /\ UNCHANGED <<ui, notifications, localStorage, effects, pagesRead>>

ReportPutTransaction ==
    /\ Idle
    /\ \E updates \in ReportTransactionUpdates :
          PutTransactionFindOne("u1", 1, updates)
    /\ UNCHANGED <<ui, notifications, localStorage, effects, pagesRead>>

ReportDeleteCategory ==
    /\ Idle
    /\ \E id \in ReportCategoryIds : DeleteCategoryFindOne("u1", id)
    /\ UNCHANGED <<ui, notifications, localStorage, effects, pagesRead>>

ReportGetSummary ==
    /\ Idle
    /\ \E query \in DateQueries : GetSummary("u1", query)
    /\ UNCHANGED <<inflight, ui, notifications, localStorage, effects, pagesRead>>

ReportGetCategoryBreakdown ==
    /\ Idle
    /\ \E u \in Users, query \in BreakdownQueries : GetCategoryBreakdown(u, query)
    /\ UNCHANGED <<inflight, ui, notifications, localStorage, effects, pagesRead>>

ReportGetMonthlyTrends ==
    /\ Idle
    /\ \E query \in TrendQueries : GetMonthlyTrends("u1", query)
    /\ UNCHANGED <<inflight, ui, notifications, localStorage, effects, pagesRead>>

NextReports ==
    \/ ReportPostTransaction
    \/ ReportPutTransaction
    \/ ReportDeleteCategory
    \/ ReportGetSummary
    \/ ReportGetCategoryBreakdown
    \/ ReportGetMonthlyTrends
    \/ ServePostTransactionSave
    \/ ServePostTransactionPopulate
    \/ ServePutTransactionSave
    \/ ServePutTransactionPopulate
    \/ ServeDeleteCategoryCount
    \/ ServeDeleteCategoryWrite

SpecReports == InitReports /\ [][NextReports]_vars

IsReport(route) == "route" \in DOMAIN req /\ req.route = route

(* the transactions the last report is about: the requester's within the
   dates of the query *)
Requested ==
    { t \in transactions :
        /\ t.user = req.user
        /\ Has(req.query, "startDate") => t.date >= req.query.startDate
        /\ Has(req.query, "endDate") => t.date <= req.query.endDate }

(* the transactions a category-breakdown request is about: the requester's,
   of the requested type (expense if none is given), within the dates *)
BreakdownMatched ==
    { t \in Requested :
        t.type = (IF Has(req.query, "type") THEN req.query.type ELSE "expense") }

(* those of them whose category is no category record *)
Unresolved == { t \in BreakdownMatched : \A c \in categories : c._id # t.category }

RECURSIVE SumTotals(_)
SumTotals(groups) ==
    IF groups = <<>> THEN 0
    ELSE Head(groups).total + SumTotals(Tail(groups))

(* C11: the totals of all groups of GET /api/reports/category-breakdown sum
   to the total GET /api/reports/summary reports for that type over the same
   date range, which is the Summary total of the requester's transactions of
   the type within the dates: the sum of their amounts. *)
C11_BreakdownSumsToSummary ==
    IsReport("category-breakdown") =>
        /\ SumTotals(res.body) =
              (IF Has(req.query, "type") /\ req.query.type = "income"
               THEN Summary(req.user, req.query).income.total
               ELSE Summary(req.user, req.query).expense.total)
        /\ SumTotals(res.body) = SumAmounts(BreakdownMatched)

Uncategorized == <<"U", "n", "c", "a", "t", "e", "g", "o", "r", "i", "z", "e", "d">>

(* C12: the transactions whose category resolves to no category record are
   in the result of GET /api/reports/category-breakdown, in a group named
   "Uncategorized". *)
C12_UnresolvedAreUncategorized ==
    IsReport("category-breakdown") /\ Unresolved # {} =>
        \E i \in DOMAIN res.body :
            /\ res.body[i].name = Uncategorized
            /\ res.body[i].count = Cardinality(Unresolved)
            /\ res.body[i].total = SumAmounts(Unresolved)

(* C13: the transactions of a deactivated category are in the result of
   GET /api/reports/category-breakdown, all of them in one group that carries
   the category's name and color. *)
C13_DeactivatedCategoryStillReported ==
    IsReport("category-breakdown") =>
        \A c \in categories :
            LET of == { t \in BreakdownMatched : t.category = c._id }
            IN  ~c.isActive /\ of # {} =>
                    \E i \in DOMAIN res.body :
                        /\ res.body[i]._id = c._id
                        /\ res.body[i].name = c.name
                        /\ res.body[i].color = c.color
                        /\ res.body[i].count = Cardinality(of)
                        /\ res.body[i].total = SumAmounts(of)

(* a group of the summary that is all zero *)
Zeroed(group) ==
    /\ group.total = 0
    /\ group.count = 0
    /\ group.avgAmount[1] = 0 /\ group.avgAmount[2] # 0

(* the year a monthly-trends request is about *)
TrendYear == IF Has(req.query, "year") THEN req.query.year ELSE CurrentYear

(* C17: when no transaction matches the request, GET /api/reports/summary
   answers 200 with zero totals, counts and averages, balance 0 and
   totalTransactions 0, GET /api/reports/monthly-trends answers 200 with 12
   all-zero buckets, and GET /api/reports/category-breakdown answers 200
   with an empty list. *)
C17_EmptyReportsAreZero ==
    /\ IsReport("summary") /\ Requested = {} =>
          /\ res.status = 200
          /\ Zeroed(res.body.income) /\ Zeroed(res.body.expense)
          /\ res.body.balance = 0
          /\ res.body.totalTransactions = 0
    /\ IsReport("monthly-trends")
          /\ (\A t \in transactions :
                 t.user = req.user => YearOf(t.date) # TrendYear) =>
          /\ res.status = 200
          /\ Len(res.body) = 12
          /\ \A i \in 1..12 :
                /\ res.body[i].income = 0 /\ res.body[i].expense = 0
                /\ res.body[i].balance = 0
                /\ res.body[i].incomeCount = 0 /\ res.body[i].expenseCount = 0
    /\ IsReport("category-breakdown") /\ BreakdownMatched = {} =>
          /\ res.status = 200
          /\ Len(res.body) = 0

C17_Witness ==
    /\ IsReport("summary")
    /\ transactions # {}
    /\ Requested = {}
    /\ res.body.totalTransactions = 0

----------------------------------------------------------------------------
(* Summaries and monthly trends, of the API and of the UI.  The React
   application keeps its own transactions (AppContent's state); a date of the
   UI is the number of its month, counted from the January of BaseYear. *)

UiYearOf(date) == BaseYear + ((date - 1) \div MonthsPerYear)
UiMonthOf(date) == ((date - 1) % MonthsPerYear) + 1

(* the balance taken the other way round *)
DashboardStatsExpenseLessIncome ==
    LET currentMonth == MonthTransactions(ui.selectedMonth)
        totalIncome ==
            SumSeq(SelectSeq(currentMonth, LAMBDA t : t.type = "income"))
        totalExpenses ==
            SumSeq(SelectSeq(currentMonth, LAMBDA t : t.type = "expense"))
    IN  [totalIncome |-> totalIncome,
         totalExpenses |-> totalExpenses,
         balance |-> totalExpenses - totalIncome]

(* Dashboard: stats, over the transactions of the selected month *)
DashboardStats ==
    LET currentMonth == MonthTransactions(ui.selectedMonth)
        totalIncome ==
            SumSeq(SelectSeq(currentMonth, LAMBDA t : t.type = "income"))
        totalExpenses ==
            SumSeq(SelectSeq(currentMonth, LAMBDA t : t.type = "expense"))
    IN  [totalIncome |-> totalIncome,
         totalExpenses |-> totalExpenses,
         balance |-> totalIncome - totalExpenses]

(* Reports: monthlyTrendsData for selectedPeriod 'year' *)
UiMonthlyTrendsData(selectedYear) ==
    [month \in 1..MonthsPerYear |->
        LET monthTransactions ==
                SelectSeq(ui.transactions,
                    LAMBDA t : UiYearOf(t.date) = selectedYear
                                /\ UiMonthOf(t.date) = month)
            income ==
                SumSeq(SelectSeq(monthTransactions, LAMBDA t : t.type = "income"))
            expenses ==
                SumSeq(SelectSeq(monthTransactions, LAMBDA t : t.type = "expense"))
        IN  [month |-> MonthNames[month],
             income |-> income,
             expenses |-> expenses,
             balance |-> income - expenses]]

TrendDates == { NewDate(2023, 1, 1), Noon(2023, 12, 31), NewDate(2024, 1, 1) }

(* January and December of BaseYear, and the January after *)
UiTrendDates == {1, 12, 13}

TrendPostTransaction ==
    /\ Idle
    /\ (nextId.tx - 1) + (ui.nextId - 1) < MaxTrendRecords
    /\ \E type \in Types, amount \in ReportAmounts, date \in TrendDates :
          PostTransactionFindOne("u1", type, amount,
                          IF type = "income" THEN 3 ELSE 1, date)
    /\ UNCHANGED <<ui, notifications, localStorage, effects, pagesRead>>

TrendDeleteTransaction ==
    /\ Idle
    /\ \E id \in 1..MaxTrendRecords : DeleteTransaction("u1", id)
    /\ UNCHANGED <<inflight, ui, notifications, localStorage, effects, pagesRead>>

TrendGetSummary ==
    /\ Idle
    /\ \E query \in DateQueries : GetSummary("u1", query)
    /\ UNCHANGED <<inflight, ui, notifications, localStorage, effects, pagesRead>>

TrendGetTransactionStats ==
    /\ Idle
    /\ \E query \in DateQueries : GetTransactionStats("u1", query)
    /\ UNCHANGED <<inflight, ui, notifications, localStorage, effects, pagesRead>>

TrendGetMonthlyTrends ==
    /\ Idle
    /\ \E query \in TrendQueries : GetMonthlyTrends("u1", query)
    /\ UNCHANGED <<inflight, ui, notifications, localStorage, effects, pagesRead>>

TrendUiAddTransaction ==
    /\ Idle
    /\ (nextId.tx - 1) + (ui.nextId - 1) < MaxTrendRecords
    /\ \E type \in Types, amount \in ReportAmounts, date \in UiTrendDates :
          UiAddTransaction(type, amount, "lunch",
                           IF type = "income" THEN 7 ELSE 1, date)

TrendUiDeleteTransaction ==
    /\ Idle
    /\ \E id \in 1..MaxTrendRecords : UiDeleteTransaction(id)

TrendUiSelectMonth ==
    /\ Idle
    /\ \E month \in Months : UiSelectMonth(month)

TrendUiSetActiveTab ==
    /\ Idle
    /\ \E tab \in {"dashboard", "add-transaction"} : UiSetActiveTab(tab)

NextTrends ==
    \/ TrendPostTransaction
    \/ TrendDeleteTransaction
    \/ TrendGetSummary
    \/ TrendGetTransactionStats
    \/ TrendGetMonthlyTrends
    \/ TrendUiAddTransaction
    \/ TrendUiDeleteTransaction
    \/ TrendUiSelectMonth
    \/ TrendUiSetActiveTab
    \/ ServePostTransactionSave
    \/ ServePostTransactionPopulate

SpecTrends == InitReports /\ [][NextTrends]_vars

(* the requester's transactions of a type dated in a month of a year *)
InMonth(u, year, month, type) ==
    { t \in transactions :
        /\ t.user = u /\ t.type = type
        /\ YearOf(t.date) = year /\ MonthOf(t.date) = month }

UiInMonth(year, month) ==
    SelectSeq(ui.transactions,
        LAMBDA t : UiYearOf(t.date) = year /\ UiMonthOf(t.date) = month)

(* C14: GET /api/reports/monthly-trends and the yearly trend of the UI's
   Reports give exactly 12 entries, January to December in this order, and
   the entry of a month without transactions is all zero. *)
C14_TwelveMonthsInOrder ==
    /\ IsReport("monthly-trends") =>
          /\ Len(res.body) = 12
          /\ \A i \in 1..12 :
                /\ res.body[i].month = MonthNames[i]
                /\ InMonth(req.user, TrendYear, i, "income")
                        \cup InMonth(req.user, TrendYear, i, "expense") = {} =>
                      /\ res.body[i].income = 0 /\ res.body[i].expense = 0
                      /\ res.body[i].balance = 0
                      /\ res.body[i].incomeCount = 0
                      /\ res.body[i].expenseCount = 0
    /\ \A year \in ReportYears :
          LET data == UiMonthlyTrendsData(year)
          IN  /\ Len(data) = 12
              /\ \A i \in 1..12 :
                    /\ data[i].month = MonthNames[i]
                    /\ UiInMonth(year, i) = <<>> =>
                          /\ data[i].income = 0 /\ data[i].expenses = 0
                          /\ data[i].balance = 0

(* the trends of a year answered, the UI holding an income of one month of
   it and none of another *)
C14_Witness ==
    /\ IsReport("monthly-trends")
    /\ Len(res.body) = 12
    /\ \E i, j \in 1..12 :
          /\ UiMonthlyTrendsData(TrendYear)[i].income > 0
          /\ UiInMonth(TrendYear, j) = <<>>
          /\ InMonth(req.user, TrendYear, j, "income")
                \cup InMonth(req.user, TrendYear, j, "expense") = {}
          /\ res.body[j].incomeCount + res.body[j].expenseCount = 0

(* C15: every transaction of the requester dated within the year is counted
   by GET /api/reports/monthly-trends in the bucket of its month, under its
   type: each bucket holds the sums and counts of its month. *)
C15_EveryTransactionInItsMonth ==
    IsReport("monthly-trends") =>
        \A i \in 1..12 :
            /\ res.body[i].income =
                    SumAmounts(InMonth(req.user, TrendYear, i, "income"))
            /\ res.body[i].expense =
                    SumAmounts(InMonth(req.user, TrendYear, i, "expense"))
            /\ res.body[i].incomeCount =
                    Cardinality(InMonth(req.user, TrendYear, i, "income"))
            /\ res.body[i].expenseCount =
                    Cardinality(InMonth(req.user, TrendYear, i, "expense"))

(* C16: the balance the summary computations return (GET
   /api/reports/summary, GET /api/transactions/stats, Dashboard stats) is the
   returned income total less the returned expense total. *)
C16_BalanceIsIncomeLessExpense ==
    /\ IsReport("summary") \/ IsReport("stats") =>
          res.body.balance = res.body.income.total - res.body.expense.total
    /\ DashboardStats.balance =
          DashboardStats.totalIncome - DashboardStats.totalExpenses

(* a summary answered while the Dashboard shows more spent than earned *)
C16_Witness ==
    /\ IsReport("summary") \/ IsReport("stats")
    /\ DashboardStats.totalIncome > 0
    /\ DashboardStats.totalExpenses > DashboardStats.totalIncome
    /\ DashboardStats.balance < 0

----------------------------------------------------------------------------
(* C18: DELETE /api/categories/:id on a category of the requester keeps the
   record and sets isActive to false when a transaction of the requester
   references it, removes the record when none does, and changes no
   transaction either way; the requests are served one at a time. *)
C18_DeleteDeactivatesOrRemoves ==
    [][\A i \in DOMAIN inflight :
         \A c \in categories :
            /\ inflight[i].op = "deleteCategory"
            /\ c._id = inflight[i].id /\ c.user = inflight[i].user
            => /\ transactions' = transactions
               /\ IF Len(inflight') = Len(inflight)
                  THEN categories' = categories
                  ELSE IF \E t \in transactions :
                            t.user = c.user /\ t.category = c._id
                  THEN categories' = (categories \ {c})
                                        \cup {[c EXCEPT !.isActive = FALSE]}
                  ELSE categories' = categories \ {c}]_vars

(* a referenced category after its DELETE: kept, inactive *)
C18_Witness ==
    /\ ~IsReport("summary") /\ res.status = 200
    /\ \E c \in categories :
          /\ ~c.isActive
          /\ \E t \in transactions : t.user = c.user /\ t.category = c._id
    /\ Cardinality(categories) < Cardinality(ReportCategoryIds)

----------------------------------------------------------------------------
(* Creating budgets: POST /api/budgets next to the requests that switch a
   budget off or remove it *)

PostPeriods == {"weekly", "monthly"}

(* the body of PUT /api/budgets/:id that switches the budget off *)
SwitchOff ==
    [keys |-> {"isActive"}, amount |-> 1, startDate |-> 1, endDate |-> 1,
     spent |-> 0, alertThresholds |-> DefaultThresholds, isActive |-> FALSE,
     user |-> "u1"]

CreatePostBudget ==
    /\ Idle
    /\ nextId.bud <= MaxBudgets
    /\ \E category \in {1, 2}, period \in PostPeriods,
          startDate \in Dates, endDate \in Dates :
          PostBudgetFindCategory("u1", category, 1, period, startDate, endDate,
                     DefaultThresholds)
    /\ UNCHANGED <<ui, notifications, localStorage, effects, pagesRead>>

CreatePutBudget ==
    /\ Idle
    /\ \E id \in BudgetIds : PutBudgetFindOne("u1", id, SwitchOff)
    /\ UNCHANGED <<ui, notifications, localStorage, effects, pagesRead>>

CreateDeleteBudget ==
    /\ Idle
    /\ \E id \in BudgetIds : DeleteBudget("u1", id)
    /\ UNCHANGED <<inflight, ui, notifications, localStorage, effects, pagesRead>>

NextCreateBudget ==
    \/ CreatePostBudget
    \/ CreatePutBudget
    \/ CreateDeleteBudget
    \/ ServePostBudgetFindExisting
    \/ ServePostBudgetSave
    \/ ServePostBudgetPopulate
    \/ ServePutBudgetSave
    \/ ServePutBudgetPopulate

SpecCreateBudget == InitBudgets /\ [][NextCreateBudget]_vars

(* C19: POST /api/budgets with well-formed fields and an active expense
   category of the requester answers 400 and leaves the budgets unchanged
   exactly when an active budget of the same user, category and period has
   startDate <= the new endDate and endDate >= the new startDate; otherwise
   it adds exactly one budget, with the requested fields, and answers 201;
   the requests are served one at a time. *)
C19_PostBudgetRejectsOverlapOnly ==
    [][\A i \in DOMAIN inflight :
         LET r == inflight[i]
             new == r.body
             answered == Len(inflight') < Len(inflight)
         IN  r.op = "postBudget" =>
                /\ r.pc = "findExisting" =>
                      /\ budgets' = budgets
                      /\ IF \E b \in budgets :
                               /\ b.user = r.user /\ b.category = new.category
                               /\ b.period = new.period /\ b.isActive
                               /\ b.startDate <= new.endDate
                               /\ b.endDate >= new.startDate
                         THEN answered /\ res'.status = 400
                         ELSE ~answered /\ inflight'[i].pc = "save"
                /\ r.pc = "save" =>
                      /\ ~answered /\ inflight'[i].pc = "populate"
                      /\ \E b \in budgets' :
                            /\ b \notin budgets
                            /\ budgets' = budgets \cup {b}
                            /\ b.user = r.user /\ b.category = new.category
                            /\ b.amount = new.amount /\ b.period = new.period
                            /\ b.startDate = new.startDate
                            /\ b.endDate = new.endDate
                            /\ b.isActive
                /\ r.pc = "populate" =>
                      /\ answered /\ res'.status = 201
                      /\ budgets' = budgets]_vars

(* two active budgets of one category and period side by side, the second
   just accepted *)
C19_Witness ==
    /\ res.status = 201
    /\ \E b1, b2 \in budgets :
          /\ b1.category = b2.category /\ b1.period = b2.period
          /\ b1.user = b2.user /\ b1.isActive /\ b2.isActive
          /\ b1.endDate < b2.startDate
          /\ b2._id = nextId.bud - 1

----------------------------------------------------------------------------
(* C20: POST /api/categories with well-formed fields answers 400 exactly
   when the requester has an active category of the same type whose name
   equals the new name ignoring letter case; in every other case, also when
   only deactivated categories carry the name, the category is stored as
   active and the answer is 201. *)
C20_PostCategoryRejectsActiveDuplicateOnly ==
    [][/\ \A u \in Users, name \in InputNames, type \in Types :
            PostCategoryFindOne(u, name, type) /\ Len(Trim(name)) >= 1 =>
                IF \E c \in categories :
                      /\ c.user = u /\ c.type = type /\ c.isActive
                      /\ EqualIgnoreCase(c.name, Trim(name))
                THEN res'.status = 400
                ELSE Len(inflight') > Len(inflight)
       /\ \A i \in DOMAIN inflight :
            LET r == inflight[i]
            IN  r.op = "postCategory" =>
                    /\ res'.status = 201
                    /\ \E c \in categories' :
                          /\ c \notin categories
                          /\ categories' = categories \cup {c}
                          /\ c.user = r.user /\ c.type = r.body.type
                          /\ c.name = r.body.name /\ c.isActive]_vars

----------------------------------------------------------------------------
(* the requester has no category, no transaction of this id *)
NoCategoryOf(u, id) == ~\E c \in categories : c._id = id /\ c.user = u
NoTransactionOf(u, id) == ~\E t \in transactions : t._id = id /\ t.user = u

StoresUnchanged == UNCHANGED <<categories, transactions, budgets>>

(* the bodies of PUT /api/transactions/:id that pass the validators *)
ValidTransactionUpdates ==
    { b \in TransactionUpdates : Has(b, "amount") => b.amount >= 1 }

(* C21: a request whose id is of no record of the requester, as the :id of a
   category or transaction route or as the category of the body of
   POST /api/transactions or PUT /api/transactions/:id, is answered 404 and
   changes no stored record. *)
C21_UnknownIdNotFound ==
    [][\A u \in Users :
         /\ \A id \in CategoryIds :
               DeleteCategoryFindOne(u, id) /\ NoCategoryOf(u, id) =>
                    res'.status = 404 /\ StoresUnchanged
         /\ \A id \in TransactionIds :
               DeleteTransaction(u, id) /\ NoTransactionOf(u, id) =>
                    res'.status = 404 /\ StoresUnchanged
         /\ \A id \in TransactionIds, updates \in ValidTransactionUpdates :
               PutTransactionFindOne(u, id, updates)
                    /\ NoTransactionOf(u, id) =>
                    res'.status = 404 /\ StoresUnchanged
         /\ \A i \in DOMAIN inflight :
               /\ inflight[i].user = u
               /\ PutTransactionFindCategory(i)
               /\ NoCategoryOf(u, inflight[i].body.category)
               => res'.status = 404 /\ StoresUnchanged
         /\ \A type \in Types, category \in CategoryIds :
               PostTransactionFindOne(u, type, 1, category, 1)
                    /\ NoCategoryOf(u, category) =>
                    res'.status = 404 /\ StoresUnchanged]_vars

----------------------------------------------------------------------------
(* C22: every stored budget has startDate <= endDate, POST /api/budgets
   rejecting a body whose endDate is earlier than its startDate. *)
C22_BudgetWindowOrdered ==
    \A b \in budgets : b.startDate <= b.endDate

----------------------------------------------------------------------------
(* Reports.exportData (components/Reports.jsx): the CSV text of the
   transactions of the selected period, a year or a month.  A text is a tuple of characters; a
   piece of text that holds no comma, quote or line break is one element. *)

MaxDescription == 2     \* the longest description typed into the form

Comma == ","
Quote == "\""
LineBreak == "\n"

DescriptionChars == {"a", Comma, Quote}

(* TransactionForm accepts every description that is not blank *)
Descriptions ==
    UNION { [1..n -> DescriptionChars] : n \in 1..MaxDescription }

(* Array.prototype.join *)
RECURSIVE Join(_, _)
Join(parts, separator) ==
    IF parts = <<>> THEN <<>>
    ELSE IF Len(parts) = 1 THEN parts[1]
    ELSE parts[1] \o <<separator>> \o Join(Tail(parts), separator)

TwoDigits == <<"01", "02", "03", "04", "05", "06",
               "07", "08", "09", "10", "11", "12">>
YearText(year) == IF year = BaseYear THEN "2023" ELSE "2024"
NumberText(n) == <<"0", "1", "2", "3", "4", "5", "6", "7", "8", "9">>[n + 1]

(* format(new Date(t.date), 'yyyy-MM-dd'); the UI's dates are the first days
   of their months *)
FormatDate(date) ==
    <<YearText(UiYearOf(date)), "-", TwoDigits[UiMonthOf(date)], "-",
      TwoDigits[1]>>

(* .sort((a, b) => new Date(b.date) - new Date(a.date)): latest date first,
   transactions of one date in the order they had *)
RECURSIVE SortLatestDateFirst(_)
SortLatestDateFirst(ts) ==
    IF ts = <<>> THEN <<>>
    ELSE LET last == ts[Len(ts)]
             sorted == SortLatestDateFirst(SubSeq(ts, 1, Len(ts) - 1))
         IN  SelectSeq(sorted, LAMBDA t : t.date >= last.date)
                \o <<last>>
                \o SelectSeq(sorted, LAMBDA t : t.date < last.date)

(* Reports.filteredTransactions as exportData finds it: the transactions of
   selectedYear when selectedPeriod is 'year', otherwise those of
   selectedMonth, in the order the Transaction History table has sorted the
   array into when it was rendered *)
FilteredTransactions(state, selectedPeriod, selectedYear, selectedMonth) ==
    SortLatestDateFirst(
        IF selectedPeriod = "year"
        THEN SelectSeq(state.transactions,
                       LAMBDA t : UiYearOf(t.date) = selectedYear)
        ELSE SelectSeq(state.transactions, LAMBDA t : t.date = selectedMonth))

CsvHeader ==
    Join(<< <<"Date">>, <<"Type">>, <<"Category">>, <<"Description">>,
            <<"Amount">> >>, Comma)

(* category?.name || 'Uncategorized' *)
ExportCategoryName(state, categoryId) ==
    LET found == { c \in state.categories : c.id = categoryId }
    IN  IF found = {} \/ (CHOOSE c \in found : TRUE).name = ""
        THEN "Uncategorized"
        ELSE (CHOOSE c \in found : TRUE).name

(* one row of exportData: the description goes between two quotes as it is *)
CsvRow(state, t) ==
    Join(<< FormatDate(t.date),
            <<t.type>>,
            <<ExportCategoryName(state, t.categoryId)>>,
            <<Quote>> \o t.description \o <<Quote>>,
            <<NumberText(t.amount)>> >>, Comma)

(* csvContent of exportData *)
CsvContent(state, selectedPeriod, selectedYear, selectedMonth) ==
    LET rows == FilteredTransactions(state, selectedPeriod, selectedYear,
                                     selectedMonth)
    IN  Join(<<CsvHeader>> \o [i \in 1..Len(rows) |-> CsvRow(state, rows[i])],
             LineBreak)

NoCsv == [exported |-> FALSE, period |-> "year", year |-> BaseYear,
          month |-> CurrentMonth, text |-> <<>>]

(* the Export button of Reports, with the period, year and month its
   selectors hold: the text is offered as a download *)
ExportData(selectedPeriod, selectedYear, selectedMonth) ==
    /\ ui.activeTab = "reports"
    /\ ui' = [ui EXCEPT !.csvContent =
                    [exported |-> TRUE, period |-> selectedPeriod,
                     year |-> selectedYear, month |-> selectedMonth,
                     text |-> CsvContent(ui, selectedPeriod, selectedYear,
                                         selectedMonth)]]
    /\ UNCHANGED <<categories, transactions, budgets, nextId, req, res, inflight,
                 notifications, localStorage, effects, pagesRead>>

(* the transactions addTransaction has stored from TransactionForm's data *)
ExportTransaction(id, kind, date, description) ==
    [id |-> id, type |-> kind.type, amount |-> 1, categoryId |-> kind.categoryId,
     date |-> date, description |-> description]

ExportKinds == { [type |-> "expense", categoryId |-> 1],
                 [type |-> "income", categoryId |-> 7],
                 [type |-> "expense", categoryId |-> 99] }
(* January and February of BaseYear, and the January after *)
ExportDates == {1, 2, MonthsPerYear + 1}

ExportLists ==
    { <<>> }
    \cup { <<ExportTransaction(1, k, d, text)>> :
              k \in ExportKinds, d \in ExportDates, text \in Descriptions }
    \cup { <<ExportTransaction(1, k, 1, text),
             ExportTransaction(2, [type |-> "income", categoryId |-> 7], d, more)>> :
              k \in ExportKinds, d \in ExportDates, text \in Descriptions,
              more \in Descriptions }

InitExport ==
    /\ InitStores
    /\ inflight = NoRequests
    /\ \E list \in ExportLists :
          ui = [activeTab |-> "reports",
                transactions |-> list, budgets |-> <<>>,
                categories |-> UiCategories, selectedMonth |-> CurrentMonth,
                nextId |-> Len(list) + 1, csvContent |-> NoCsv]
    /\ notifications = {}
    /\ localStorage = SaveEffects(ui)
    /\ effects = NoEffects
    /\ pagesRead = <<>>

ExportPeriods == {"year", "month"}

ExportExportData ==
    \E selectedPeriod \in ExportPeriods, selectedYear \in ReportYears,
       selectedMonth \in ExportDates :
          ExportData(selectedPeriod, selectedYear, selectedMonth)

NextExport == ExportExportData

SpecExport == InitExport /\ [][NextExport]_vars

(* Reading a CSV text: a separator counts outside double quotes only *)
RECURSIVE SplitUnquoted(_, _, _, _)
SplitUnquoted(text, separator, inQuotes, current) ==
    IF text = <<>> THEN <<current>>
    ELSE IF Head(text) = separator /\ ~inQuotes
    THEN <<current>> \o SplitUnquoted(Tail(text), separator, FALSE, <<>>)
    ELSE SplitUnquoted(Tail(text), separator,
                       IF Head(text) = Quote THEN ~inQuotes ELSE inQuotes,
                       Append(current, Head(text)))

CsvLines(text) == SplitUnquoted(text, LineBreak, FALSE, <<>>)
CsvFields(line) == SplitUnquoted(line, Comma, FALSE, <<>>)

(* C23: the CSV text of exportData is the header line followed by exactly
   one line per transaction of the selected period, each line of exactly five
   comma-separated fields (date, type, category, description, amount) with
   the description between double quotes, whatever the description. *)
C23_CsvOneLineOfFiveFields ==
    ui.csvContent.exported =>
        LET rows == FilteredTransactions(ui, ui.csvContent.period,
                                         ui.csvContent.year,
                                         ui.csvContent.month)
            lines == CsvLines(ui.csvContent.text)
        IN  /\ Len(lines) = 1 + Len(rows)
            /\ lines[1] = CsvHeader
            /\ \A i \in 1..Len(rows) :
                  LET fields == CsvFields(lines[i + 1])
                  IN  /\ Len(fields) = 5
                      /\ fields[1] = FormatDate(rows[i].date)
                      /\ fields[2] = <<rows[i].type>>
                      /\ fields[4] = <<Quote>> \o rows[i].description \o <<Quote>>
                      /\ fields[5] = <<NumberText(rows[i].amount)>>

----------------------------------------------------------------------------
(* POST /api/budgets served concurrently: up to MaxRequests requests in
   flight, their awaits interleaving in any order *)

(* the bodies of POST /api/budgets of the race: one amount, windows with
   startDate <= endDate *)
BudgetBodies ==
    { b \in [category : {1, 2}, amount : {1}, period : PostPeriods,
             startDate : Dates, endDate : Dates] : b.startDate <= b.endDate }

BudgetRacePostBudget ==
    /\ Len(inflight) < MaxRequests
    /\ nextId.bud + PendingPostBudgets <= MaxBudgets
    /\ \E body \in BudgetBodies :
          PostBudgetFindCategory("u1", body.category, body.amount, body.period,
                                 body.startDate, body.endDate, DefaultThresholds)
    /\ UNCHANGED <<ui, notifications, localStorage, effects, pagesRead>>

NextBudgetRace ==
    \/ BudgetRacePostBudget
    \/ ServePostBudgetFindExisting
    \/ ServePostBudgetSave
    \/ ServePostBudgetPopulate

SpecBudgetRace == InitBudgets /\ [][NextBudgetRace]_vars

(* two bodies name the same category and period with meeting windows *)
SameBudgetSlot(a, b) ==
    /\ a.category = b.category
    /\ a.period = b.period
    /\ a.startDate <= b.endDate
    /\ a.endDate >= b.startDate

(* C24: of two POST /api/budgets requests of one user for the same category
   and period with intersecting windows, served concurrently under any
   interleaving of their reads and writes, at most one is answered 201 and at
   most one budget is stored. *)
C24_ConcurrentPostBudgetsExclude ==
    \A b \in budgets :
        Cardinality({ c \in budgets :
                        c.user = b.user /\ SameBudgetSlot(b, c) }) <= 1

----------------------------------------------------------------------------
(* GET /api/categories *)

(* the code unit of a character of the names' alphabet *)
CharCode(c) ==
    CASE c = " " -> 32
      [] c = "." -> 46
      [] c = "A" -> 65
      [] OTHER -> 97

(* the order of two strings under sort({ name: 1 }): by code units *)
RECURSIVE NameBefore(_, _)
NameBefore(s, t) ==
    IF t = <<>> THEN FALSE
    ELSE IF s = <<>> THEN TRUE
    ELSE IF CharCode(Head(s)) # CharCode(Head(t))
    THEN CharCode(Head(s)) < CharCode(Head(t))
    ELSE NameBefore(Tail(s), Tail(t))

(* .sort({ name: 1 }): the orders the sort can give; categories of one name
   come in any order *)
SortByName(docs) ==
    { sorted \in [1..Cardinality(docs) -> docs] :
        /\ \A d \in docs : \E i \in DOMAIN sorted : sorted[i] = d
        /\ \A i, j \in DOMAIN sorted :
              i < j => ~NameBefore(sorted[j].name, sorted[i].name) }

(* GET /api/categories; type is the optional query parameter, "" when it is
   not given *)
GetCategories(u, type) ==
    LET found == { c \in categories :
                      /\ c.user = u
                      /\ c.isActive
                      /\ (type # "" => c.type = type) }
    IN  /\ \E sorted \in SortByName(found) : res' = ResponseWith(200, sorted)
        /\ req' = ReportRequest(u, "categories", [type |-> type])
        /\ UNCHANGED <<categories, transactions, budgets, nextId>>

----------------------------------------------------------------------------
(* The category, transaction and budget API, one request at a time, for a
   user who has an expense category (1) and an income category (2) *)

MaxApiRecords == 2      \* records ever created, the three collections together

ApiCategoryIds == 1..(2 + MaxApiRecords)
ApiRecordIds == 1..MaxApiRecords

(* the records created so far *)
ApiRecords == (nextId.cat - 3) + (nextId.tx - 1) + (nextId.bud - 1)

(* bodies of PUT /api/categories/:id: a blank name, the category switched
   off, the category switched on *)
ApiCategoryUpdates ==
    { b \in CategoryUpdates :
        \/ b.keys = {"name"} /\ b.name = <<" ">>
        \/ b.keys = {"isActive"} }

(* bodies of PUT /api/transactions/:id with amount or category *)
ApiTransactionUpdates ==
    { b \in [keys : SUBSET {"amount", "category"}, type : {"income"},
             amount : {0, 1}, category : ApiCategoryIds, date : {1},
             user : {"u1"}] :
        /\ ~Has(b, "amount") => b.amount = 1
        /\ ~Has(b, "category") => b.category = 1 }

(* bodies of PUT /api/budgets/:id: the budget switched off, an amount of 0 *)
ApiBudgetUpdates ==
    { SwitchOff, [SwitchOff EXCEPT !.keys = {"amount"}, !.amount = 0,
                                   !.isActive = TRUE] }

ApiGetCategories ==
    /\ Idle
    /\ \E type \in {"", "expense"} : GetCategories("u1", type)
    /\ UNCHANGED <<inflight, ui, notifications, localStorage, effects, pagesRead>>

ApiPostCategory ==
    /\ Idle
    /\ ApiRecords < MaxApiRecords
    /\ \E name \in {<<"a">>, <<" ">>} : PostCategoryFindOne("u1", name, "expense")
    /\ UNCHANGED <<ui, notifications, localStorage, effects, pagesRead>>

ApiPutCategory ==
    /\ Idle
    /\ \E id \in ApiCategoryIds, updates \in ApiCategoryUpdates :
          PutCategoryFindOne("u1", id, updates)
    /\ UNCHANGED <<ui, notifications, localStorage, effects, pagesRead>>

ApiDeleteCategory ==
    /\ Idle
    /\ \E id \in ApiCategoryIds : DeleteCategoryFindOne("u1", id)
    /\ UNCHANGED <<ui, notifications, localStorage, effects, pagesRead>>

ApiPostTransaction ==
    /\ Idle
    /\ ApiRecords < MaxApiRecords
    /\ \E amount \in {0, 1}, category \in ApiCategoryIds :
          PostTransactionFindOne("u1", "expense", amount, category, 1)
    /\ UNCHANGED <<ui, notifications, localStorage, effects, pagesRead>>

ApiPutTransaction ==
    /\ Idle
    /\ \E id \in ApiRecordIds, updates \in ApiTransactionUpdates :
          PutTransactionFindOne("u1", id, updates)
    /\ UNCHANGED <<ui, notifications, localStorage, effects, pagesRead>>

ApiDeleteTransaction ==
    /\ Idle
    /\ \E u \in Users, id \in ApiRecordIds : DeleteTransaction(u, id)
    /\ UNCHANGED <<inflight, ui, notifications, localStorage, effects, pagesRead>>

ApiPostBudget ==
    /\ Idle
    /\ ApiRecords < MaxApiRecords
    /\ \E category \in ApiCategoryIds, amount \in {0, 1} :
          PostBudgetFindCategory("u1", category, amount, "monthly", 1, 1, DefaultThresholds)
    /\ UNCHANGED <<ui, notifications, localStorage, effects, pagesRead>>

ApiPutBudget ==
    /\ Idle
    /\ \E id \in ApiRecordIds, updates \in ApiBudgetUpdates :
          PutBudgetFindOne("u1", id, updates)
    /\ UNCHANGED <<ui, notifications, localStorage, effects, pagesRead>>

ApiDeleteBudget ==
    /\ Idle
    /\ \E id \in ApiRecordIds : DeleteBudget("u1", id)
    /\ UNCHANGED <<inflight, ui, notifications, localStorage, effects, pagesRead>>

NextApi ==
    \/ ApiGetCategories
    \/ ApiPostCategory
    \/ ApiPutCategory
    \/ ApiDeleteCategory
    \/ ApiPostTransaction
    \/ ApiPutTransaction
    \/ ApiDeleteTransaction
    \/ ApiPostBudget
    \/ ApiPutBudget
    \/ ApiDeleteBudget
    \/ ServePostCategorySave
    \/ ServePutCategorySave
    \/ ServeDeleteCategoryCount
    \/ ServeDeleteCategoryWrite
    \/ ServePostTransactionSave
    \/ ServePostTransactionPopulate
    \/ ServePutTransactionFindCategory
    \/ ServePutTransactionSave
    \/ ServePutTransactionPopulate
    \/ ServePostBudgetFindExisting
    \/ ServePostBudgetSave
    \/ ServePostBudgetPopulate
    \/ ServePutBudgetSave
    \/ ServePutBudgetPopulate

SpecApi == InitBudgets /\ [][NextApi]_vars

(* C25: a transaction, category or budget request answered 400 or 404 leaves
   the three collections exactly as they were before it: the step that gives
   the answer writes nothing, and no step of the request wrote before it. *)
C25_RejectedRequestChangesNothing ==
    [][/\ res'.status \in {400, 404}
       /\ (inflight' = inflight \/ Len(inflight') < Len(inflight))
       => /\ StoresUnchanged
          /\ \A i \in DOMAIN inflight : inflight[i].pc # "populate"]_vars

(* a request answered 400 while all three collections hold records *)
C25_Witness ==
    /\ res.status = 400
    /\ transactions # {} /\ budgets # {}
    /\ \E c \in categories : ~c.isActive

(* C26: while a category is deactivated no request makes a transaction or a
   budget reference it that did not before, GET /api/categories does not list
   it, and the request that deactivates a category changes no transaction. *)
C26_DeactivatedCategoryUnused ==
    [][/\ \A c \in categories : ~c.isActive =>
             /\ \A t \in transactions' : t.category = c._id =>
                    \E old \in transactions :
                        old._id = t._id /\ old.category = c._id
             /\ \A b \in budgets' : b.category = c._id =>
                    \E old \in budgets : old._id = b._id
             /\ ("route" \in DOMAIN req' /\ req'.route = "categories") =>
                    \A k \in DOMAIN res'.body : res'.body[k]._id # c._id
       /\ \A c \in categories, d \in categories' :
             c._id = d._id /\ c.isActive /\ ~d.isActive =>
                 transactions' = transactions]_vars

(* GET /api/categories answered while a category of the requester that a
   transaction references is deactivated *)
C26_Witness ==
    /\ IsReport("categories")
    /\ \E c \in categories :
          /\ ~c.isActive /\ c.user = req.user
          /\ \E t \in transactions : t.category = c._id
    /\ res.body # <<>>

----------------------------------------------------------------------------
(* Pagination of GET /api/transactions and GET /api/notifications *)

(* Math.ceil(total / limit) *)
CeilDiv(total, limit) == (total + limit - 1) \div limit

(* .skip(skip).limit(limit) on the sorted documents *)
SkipLimit(sorted, skip, limit) ==
    SubSeq(sorted, skip + 1, Min(skip + limit, Len(sorted)))

(* the pagination object both routes answer with *)
Pagination(page, limit, total, returned) ==
    LET skip == (page - 1) * limit
    IN  [current |-> page,
         pages |-> CeilDiv(total, limit),
         total |-> total,
         hasNext |-> skip + returned < total,
         hasPrev |-> page > 1]

(* GET /api/notifications and GET /api/transactions await Promise.all of a
   find and a countDocuments: both queries are sent at once and the database
   runs them in either order, the steps of other requests in between.  pc
   names the queries a request still waits for. *)

(* GET /api/notifications: the handler up to its await; query holds page,
   limit and unread ("" when not given) *)
GetNotifications(u, query) ==
    /\ inflight' = Append(inflight,
            NewRequest("getNotifications", u, 0, query,
                       "find,countDocuments", <<>>))
    /\ UNCHANGED <<categories, transactions, budgets, nextId, notifications,
                   req, res>>

(* filter = { user }, with isRead: false when unread is 'true' *)
NotificationFilter(u, query) ==
    { n \in notifications :
        /\ n.user = u
        /\ (query.unread = "true" => ~n.isRead) }

(* res.json of GET /api/notifications, both queries answered *)
GetNotificationsAnswer(i, page, total) ==
    LET r == inflight[i]
    IN  /\ res' = ResponseWith(200,
                    [notifications |-> page,
                     pagination |-> Pagination(r.body.page, r.body.limit,
                                               total, Len(page))])
        /\ req' = ReportRequest(r.user, "notifications", r.body)
        /\ inflight' = Without(i)

(* a skip of one page too many *)
GetNotificationsFindSkipPage(i) ==
    LET r == inflight[i]
        sorted == SortNewestFirst(NotificationFilter(r.user, r.body))
        page == SkipLimit(sorted, r.body.page * r.body.limit, r.body.limit)
    IN  /\ r.op = "getNotifications"
        /\ r.pc \in {"find,countDocuments", "find"}
        /\ IF r.pc = "find"
           THEN GetNotificationsAnswer(i, page, r.count)
           ELSE /\ inflight' = [inflight EXCEPT ![i].found = page,
                                                ![i].pc = "countDocuments"]
                /\ UNCHANGED <<req, res>>
        /\ UNCHANGED <<categories, transactions, budgets, nextId, notifications>>

(* GET /api/notifications: Notification.find(filter) with
   sort({ createdAt: -1 }), newest first, the ids growing with creation, then
   skip and limit *)
GetNotificationsFind(i) ==
    LET r == inflight[i]
        sorted == SortNewestFirst(NotificationFilter(r.user, r.body))
        page == SkipLimit(sorted, (r.body.page - 1) * r.body.limit,
                          r.body.limit)
    IN  /\ r.op = "getNotifications"
        /\ r.pc \in {"find,countDocuments", "find"}
        /\ IF r.pc = "find"
           THEN GetNotificationsAnswer(i, page, r.count)
           ELSE /\ inflight' = [inflight EXCEPT ![i].found = page,
                                                ![i].pc = "countDocuments"]
                /\ UNCHANGED <<req, res>>
        /\ UNCHANGED <<categories, transactions, budgets, nextId, notifications>>

(* GET /api/notifications: Notification.countDocuments(filter) *)
GetNotificationsCount(i) ==
    LET r == inflight[i]
        total == Cardinality(NotificationFilter(r.user, r.body))
    IN  /\ r.op = "getNotifications"
        /\ r.pc \in {"find,countDocuments", "countDocuments"}
        /\ IF r.pc = "countDocuments"
           THEN GetNotificationsAnswer(i, r.found, total)
           ELSE /\ inflight' = [inflight EXCEPT ![i].count = total,
                                                ![i].pc = "find"]
                /\ UNCHANGED <<req, res>>
        /\ UNCHANGED <<categories, transactions, budgets, nextId, notifications>>

(* PUT /api/notifications/:id/read: findOneAndUpdate by _id and user; now is
   new Date() *)
PutNotificationRead(u, id, now) ==
    LET found == { n \in notifications : n._id = id /\ n.user = u }
    IN  /\ IF found = {}
           THEN /\ res' = Response(404)
                /\ UNCHANGED notifications
           ELSE LET notification == CHOOSE n \in found : TRUE
                    updated == [notification EXCEPT !.isRead = TRUE,
                                                    !.readAt = now]
                IN  /\ notifications' =
                            (notifications \ {notification}) \cup {updated}
                    /\ res' = ResponseWith(200, updated)
        /\ req' = Request(u)
        /\ UNCHANGED <<categories, transactions, budgets, nextId>>

(* PUT /api/notifications/read-all: updateMany on the requester's unread
   notifications *)
PutNotificationsReadAll(u, now) ==
    /\ notifications' =
            { IF n.user = u /\ ~n.isRead
              THEN [n EXCEPT !.isRead = TRUE, !.readAt = now]
              ELSE n : n \in notifications }
    /\ res' = Response(200)
    /\ req' = Request(u)
    /\ UNCHANGED <<categories, transactions, budgets, nextId>>

(* .sort({ date: -1, createdAt: -1 }): latest date first, then newest first *)
RECURSIVE SortByDateNewestFirst(_)
SortByDateNewestFirst(docs) ==
    IF docs = {} THEN <<>>
    ELSE LET first == CHOOSE d \in docs : \A e \in docs :
                          \/ d.date > e.date
                          \/ (d.date = e.date /\ d._id >= e._id)
         IN  <<first>> \o SortByDateNewestFirst(docs \ {first})

(* a transaction of the answer, its category populated *)
TransactionJSON(t) ==
    [_id |-> t._id, user |-> t.user, type |-> t.type, amount |-> t.amount,
     category |-> Populate(t.category), date |-> t.date]

(* GET /api/transactions: the validators and the handler up to its await;
   query holds page, limit, type ("" when not given), category, startDate and
   endDate (0 when not given) *)
GetTransactions(u, query) ==
    /\ IF \/ query.page < 1
          \/ query.limit < 1 \/ query.limit > 100
          \/ query.type \notin Types \cup {""}
       THEN /\ res' = Response(400)
            /\ req' = ReportRequest(u, "transactions", query)
            /\ UNCHANGED inflight
       ELSE /\ inflight' = Append(inflight,
                    NewRequest("getTransactions", u, 0, query,
                               "find,countDocuments", <<>>))
            /\ UNCHANGED <<req, res>>
    /\ UNCHANGED <<categories, transactions, budgets, nextId, notifications>>

(* filter = { user }, with type, category and the date range when given *)
TransactionFilter(u, query) ==
    { t \in transactions :
        /\ t.user = u
        /\ (query.type # "" => t.type = query.type)
        /\ (query.category # 0 => t.category = query.category)
        /\ (query.startDate # 0 => t.date >= query.startDate)
        /\ (query.endDate # 0 => t.date <= query.endDate) }

(* res.json of GET /api/transactions, the queries answered *)
GetTransactionsAnswer(i, page, total) ==
    LET r == inflight[i]
    IN  /\ res' = ResponseWith(200,
                    [transactions |-> page,
                     pagination |-> Pagination(r.body.page, r.body.limit,
                                               total, Len(page))])
        /\ req' = ReportRequest(r.user, "transactions", r.body)
        /\ inflight' = Without(i)

(* GET /api/transactions: Transaction.find(filter) with sort, skip and
   limit; populate's query follows *)
GetTransactionsFind(i) ==
    LET r == inflight[i]
        sorted == SortByDateNewestFirst(TransactionFilter(r.user, r.body))
        page == SkipLimit(sorted, (r.body.page - 1) * r.body.limit,
                          r.body.limit)
    IN  /\ r.op = "getTransactions"
        /\ r.pc \in {"find,countDocuments", "find"}
        /\ inflight' = [inflight EXCEPT
                ![i].found = page,
                ![i].pc = IF r.pc = "find" THEN "populate"
                          ELSE "populate,countDocuments"]
        /\ UNCHANGED <<categories, transactions, budgets, nextId, notifications,
                       req, res>>

(* GET /api/transactions: populate's query for the categories of the
   transactions found *)
GetTransactionsPopulate(i) ==
    LET r == inflight[i]
        page == [k \in 1..Len(r.found) |-> TransactionJSON(r.found[k])]
    IN  /\ r.op = "getTransactions"
        /\ r.pc \in {"populate,countDocuments", "populate"}
        /\ IF r.pc = "populate"
           THEN GetTransactionsAnswer(i, page, r.count)
           ELSE /\ inflight' = [inflight EXCEPT ![i].found = page,
                                                ![i].pc = "countDocuments"]
                /\ UNCHANGED <<req, res>>
        /\ UNCHANGED <<categories, transactions, budgets, nextId, notifications>>

(* GET /api/transactions: Transaction.countDocuments(filter) *)
GetTransactionsCount(i) ==
    LET r == inflight[i]
        total == Cardinality(TransactionFilter(r.user, r.body))
    IN  /\ r.op = "getTransactions"
        /\ r.pc \in {"find,countDocuments", "populate,countDocuments",
                     "countDocuments"}
        /\ IF r.pc = "countDocuments"
           THEN GetTransactionsAnswer(i, r.found, total)
           ELSE /\ inflight' = [inflight EXCEPT
                        ![i].count = total,
                        ![i].pc = IF r.pc = "find,countDocuments"
                                  THEN "find" ELSE "populate"]
                /\ UNCHANGED <<req, res>>
        /\ UNCHANGED <<categories, transactions, budgets, nextId, notifications>>

----------------------------------------------------------------------------
(* Reading the notifications and the transactions page by page, and marking
   notifications read, the requests served one at a time.  pagesRead holds
   the pages a client has read since it asked for page 1, each the ids of the
   records of the page. *)

MaxPageRecords == 3     \* the requester's notifications, and transactions
MaxTime == 2            \* the instants at which requests are served

(* a Notification document: owning user, read flag, read timestamp (0 while
   unread) and the creation time of timestamps: true *)
Notification(id, u) ==
    [_id |-> id, user |-> u, isRead |-> FALSE, readAt |-> 0, createdAt |-> id]

(* the instants of new Date(), all later than the notifications' creation *)
ReadTimes == (MaxPageRecords + 2)..(MaxPageRecords + 1 + MaxTime)

(* the clock does not run backwards *)
Later(now) == \A n \in notifications : n.readAt <= now

InitPages ==
    /\ categories = {ExpenseCategory, IncomeCategory}
    /\ transactions =
            { [_id |-> i, user |-> "u1",
               type |-> IF i = 1 THEN "income" ELSE "expense", amount |-> 1,
               category |-> IF i = 1 THEN 2 ELSE 1, date |-> (i % 2) + 1] :
              i \in 1..MaxPageRecords }
            \cup { [_id |-> MaxPageRecords + 1, user |-> "u2", type |-> "expense",
                    amount |-> 1, category |-> 1, date |-> 1] }
    /\ budgets = {}
    /\ nextId = [cat |-> 3, tx |-> MaxPageRecords + 2, bud |-> 1]
    /\ req = Request("u1")
    /\ res = Response(0)
    /\ inflight = NoRequests
    /\ ui = NoUI
    /\ notifications =
            { Notification(i, "u1") : i \in 1..MaxPageRecords }
            \cup { Notification(MaxPageRecords + 1, "u2") }
    /\ localStorage = SaveEffects(NoUI)
    /\ effects = NoEffects
    /\ pagesRead = <<>>

PageNumbers == 1..(MaxPageRecords + 1)
PageLimits == 1..MaxPageRecords

NotificationQueries ==
    [page : PageNumbers, limit : PageLimits, unread : {"", "true"}]
TransactionQueries ==
    [page : PageNumbers, limit : PageLimits, type : {"", "expense"},
     category : {0}, startDate : {0}, endDate : {0}]

(* the ids of the records of an answer *)
IdsOf(records) == [i \in 1..Len(records) |-> records[i]._id]

(* the pages read once the answer to query has arrived: page 1 starts anew,
   the page after the last one read under the same query goes on *)
Collected(route, query, records) ==
    IF query.page = 1 THEN <<IdsOf(records)>>
    ELSE IF /\ "route" \in DOMAIN req /\ req.route = route
            /\ req.query = [query EXCEPT !.page = @ - 1]
            /\ Len(pagesRead) = query.page - 1
    THEN Append(pagesRead, IdsOf(records))
    ELSE <<>>

(* the pages read after a step of request r: the answer, if the step gave
   it, is read *)
ReadAfter(r, route) ==
    IF Len(inflight') < Len(inflight)
    THEN IF res'.status = 200
         THEN Collected(route, r.body, res'.body[route])
         ELSE <<>>
    ELSE pagesRead

PageGetNotifications ==
    /\ Idle
    /\ \E query \in NotificationQueries : GetNotifications("u1", query)
    /\ UNCHANGED <<ui, localStorage, effects, pagesRead>>

PageGetNotificationsFind ==
    /\ \E i \in DOMAIN inflight :
          /\ GetNotificationsFind(i)
          /\ pagesRead' = ReadAfter(inflight[i], "notifications")
    /\ UNCHANGED <<ui, localStorage, effects>>

PageGetNotificationsCount ==
    /\ \E i \in DOMAIN inflight :
          /\ GetNotificationsCount(i)
          /\ pagesRead' = ReadAfter(inflight[i], "notifications")
    /\ UNCHANGED <<ui, localStorage, effects>>

PageGetTransactions ==
    /\ Idle
    /\ \E query \in TransactionQueries : GetTransactions("u1", query)
    /\ pagesRead' = IF inflight' = inflight THEN <<>> ELSE pagesRead
    /\ UNCHANGED <<ui, localStorage, effects>>

PageGetTransactionsFind ==
    /\ \E i \in DOMAIN inflight : GetTransactionsFind(i)
    /\ UNCHANGED <<ui, localStorage, effects, pagesRead>>

PageGetTransactionsPopulate ==
    /\ \E i \in DOMAIN inflight :
          /\ GetTransactionsPopulate(i)
          /\ pagesRead' = ReadAfter(inflight[i], "transactions")
    /\ UNCHANGED <<ui, localStorage, effects>>

PageGetTransactionsCount ==
    /\ \E i \in DOMAIN inflight :
          /\ GetTransactionsCount(i)
          /\ pagesRead' = ReadAfter(inflight[i], "transactions")
    /\ UNCHANGED <<ui, localStorage, effects>>

PagePutNotificationRead ==
    /\ Idle
    /\ \E id \in 1..(MaxPageRecords + 1), now \in ReadTimes :
          Later(now) /\ PutNotificationRead("u1", id, now)
    /\ pagesRead' = <<>>
    /\ UNCHANGED <<inflight, ui, localStorage, effects>>

PagePutNotificationsReadAll ==
    /\ Idle
    /\ \E now \in ReadTimes : Later(now) /\ PutNotificationsReadAll("u1", now)
    /\ pagesRead' = <<>>
    /\ UNCHANGED <<inflight, ui, localStorage, effects>>

NextPages ==
    \/ PageGetNotifications
    \/ PageGetNotificationsFind
    \/ PageGetNotificationsCount
    \/ PageGetTransactions
    \/ PageGetTransactionsFind
    \/ PageGetTransactionsPopulate
    \/ PageGetTransactionsCount
    \/ PagePutNotificationRead
    \/ PagePutNotificationsReadAll

SpecPages == InitPages /\ [][NextPages]_vars

(* The same readings while the clock stands at its first instant *)

FirstReadTime == MaxPageRecords + 2

PagingPutNotificationRead ==
    /\ Idle
    /\ \E id \in 1..(MaxPageRecords + 1) :
          PutNotificationRead("u1", id, FirstReadTime)
    /\ pagesRead' = <<>>
    /\ UNCHANGED <<inflight, ui, localStorage, effects>>

PagingPutNotificationsReadAll ==
    /\ Idle
    /\ PutNotificationsReadAll("u1", FirstReadTime)
    /\ pagesRead' = <<>>
    /\ UNCHANGED <<inflight, ui, localStorage, effects>>

NextPaging ==
    \/ PageGetNotifications
    \/ PageGetNotificationsFind
    \/ PageGetNotificationsCount
    \/ PageGetTransactions
    \/ PageGetTransactionsFind
    \/ PageGetTransactionsPopulate
    \/ PageGetTransactionsCount
    \/ PagingPutNotificationRead
    \/ PagingPutNotificationsReadAll

SpecPaging == InitPages /\ [][NextPaging]_vars

(* C27: PUT /api/notifications/:id/read and PUT /api/notifications/read-all
   leave a notification that is already read as it is: isRead true, readAt
   the time it was first marked read. *)
C27_MarkReadIdempotent ==
    [][\A n \in notifications : n.isRead => n \in notifications']_vars

(* the records the last GET was about *)
PageMatching ==
    IF req.route = "notifications"
    THEN { n._id : n \in { m \in notifications :
                /\ m.user = req.user
                /\ (req.query.unread = "true" => ~m.isRead) } }
    ELSE { t._id : t \in { x \in transactions :
                /\ x.user = req.user
                /\ (req.query.type # "" => x.type = req.query.type) } }

RECURSIVE Flatten(_)
Flatten(pages) ==
    IF pages = <<>> THEN <<>> ELSE Head(pages) \o Flatten(Tail(pages))

(* C28: for page >= 1 and limit >= 1 the pagination of GET /api/transactions
   and of GET /api/notifications has pages = ceil(total / limit), hasPrev =
   (page > 1) and hasNext = (page < pages), and the pages 1..pages read from
   an unchanged store hold every matching record exactly once. *)
C28_PagesCoverEveryRecordOnce ==
    (IsReport("notifications") \/ IsReport("transactions")) =>
        LET pagination == res.body.pagination
            total == Cardinality(PageMatching)
            all == Flatten(pagesRead)
        IN  /\ pagination.total = total
            /\ pagination.pages * req.query.limit >= total
            /\ (pagination.pages - 1) * req.query.limit < total
            /\ pagination.hasPrev = (req.query.page > 1)
            /\ pagination.hasNext = (req.query.page < pagination.pages)
            /\ (pagesRead # <<>> /\ Len(pagesRead) = pagination.pages) =>
                    /\ Len(all) = total
                    /\ { all[i] : i \in 1..Len(all) } = PageMatching

(* the last of three pages has arrived, each of one record *)
C28_Witness ==
    /\ IsReport("notifications") \/ IsReport("transactions")
    /\ res.body.pagination.pages = 3
    /\ Len(pagesRead) = 3
    /\ ~res.body.pagination.hasNext /\ res.body.pagination.hasPrev

----------------------------------------------------------------------------
(* the order of the statuses: good < warning < critical < exceeded *)
Severity(status) ==
    CASE status = "good" -> 0
      [] status = "warning" -> 1
      [] status = "critical" -> 2
      [] status = "exceeded" -> 3

(* C29: when the spent value of a budget grows while its amount and its
   alert thresholds stay as they are, its status does not become less severe,
   whatever the two thresholds in 0..100, the warning threshold above the
   critical one included. *)
C29_StatusMonotoneInSpent ==
    [][\A old \in budgets, new \in budgets' :
         /\ old._id = new._id
         /\ old.amount = new.amount
         /\ old.alertThresholds = new.alertThresholds
         /\ old.spent <= new.spent
         => Severity(Status(old)) <= Severity(Status(new))]_vars

(* a budget whose warning threshold is above its critical one, spent between
   the two: critical *)
C29_Witness ==
    \E b \in budgets :
        /\ b.alertThresholds.warning > b.alertThresholds.critical
        /\ b.spent > 0
        /\ PctGE(PercentageUsed(b), b.alertThresholds.critical)
        /\ ~PctGE(PercentageUsed(b), b.alertThresholds.warning)
        /\ Status(b) = "critical"

----------------------------------------------------------------------------
(* Mounting AppContent: the first render has committed with the initial
   state, and its four effects run in the order of their definition; the
   state updates they queue are applied by the next render, whose effects are
   those whose dependency changed. *)

MaxMountRuns == 2       \* the times React runs the effects of a mount

(* the effects of AppContent in the order of their definition *)
MountQueue == <<"load", "transactions", "budgets", "categories">>

(* the load effect: every entry found is parsed and queued as the new state *)
RunLoadEffect ==
    /\ effects.queue # <<>> /\ Head(effects.queue) = "load"
    /\ effects' = [effects EXCEPT
            !.queue = Tail(@),
            !.updates =
                [key \in DOMAIN @ |->
                    IF localStorage[key].present
                    THEN [present |-> TRUE, json |-> JsonParse(localStorage[key])]
                    ELSE @[key]]]
    /\ UNCHANGED <<categories, transactions, budgets, nextId, req, res, inflight,
                 ui, notifications, localStorage, pagesRead>>

(* a saving effect: localStorage.setItem of the list of its render *)
RunSaveEffect(key) ==
    /\ effects.queue # <<>> /\ Head(effects.queue) = key
    /\ localStorage' =
            [localStorage EXCEPT ![key] = JsonStringify(effects.closure[key])]
    /\ effects' = [effects EXCEPT !.queue = Tail(@)]
    /\ UNCHANGED <<categories, transactions, budgets, nextId, req, res, inflight,
                 ui, notifications, pagesRead>>

(* React runs the effects of the mount once more, as StrictMode does in
   development, before any queued update is rendered *)
RunMountEffectsAgain ==
    /\ effects.queue = <<>> /\ effects.passes > 0
    /\ effects' = [effects EXCEPT !.queue = MountQueue, !.passes = @ - 1]
    /\ UNCHANGED <<categories, transactions, budgets, nextId, req, res, inflight,
                 ui, notifications, localStorage, pagesRead>>

(* the render that applies the queued updates; a parsed list is a new array,
   so the saving effect of every updated list runs after it *)
Render ==
    LET updated(key) == effects.updates[key].present
        value(key) == IF updated(key) THEN effects.updates[key].json
                      ELSE Lists(ui)[key]
    IN  /\ effects.queue = <<>> /\ effects.passes = 0
        /\ \E key \in DOMAIN effects.updates : updated(key)
        /\ ui' = [ui EXCEPT !.transactions = value("transactions"),
                            !.budgets = value("budgets"),
                            !.categories = value("categories")]
        /\ effects' = [effects EXCEPT
                !.queue = SelectSeq(Tail(MountQueue), updated),
                !.closure = Lists(ui'),
                !.updates = NoUpdates]
        /\ UNCHANGED <<categories, transactions, budgets, nextId, req, res,
                     inflight, notifications, localStorage, pagesRead>>

(* lists saved by an earlier visit *)
SavedTransaction(id) ==
    [id |-> id, type |-> "expense", amount |-> 1, description |-> "lunch",
     categoryId |-> 1, date |-> 1]
SavedBudget(id) ==
    [id |-> id, categoryId |-> 1, amount |-> 1, period |-> "monthly"]
CustomCategory == [id |-> 10, name |-> "Pets", type |-> "expense"]

SavedStorages ==
    [transactions : { NullItem(<<>>), JsonStringify(<<SavedTransaction(1)>>),
                      JsonStringify(<<SavedTransaction(1), SavedTransaction(2)>>) },
     budgets : { NullItem(<<>>), JsonStringify(<<>>),
                 JsonStringify(<<SavedBudget(3)>>) },
     categories : { NullItem({}), JsonStringify(UiCategories),
                    JsonStringify(UiCategories \cup {CustomCategory}) }]

InitMount ==
    /\ InitStores
    /\ inflight = NoRequests
    /\ ui = NoUI
    /\ notifications = {}
    /\ pagesRead = <<>>
    /\ localStorage \in SavedStorages
    /\ \E runs \in 1..MaxMountRuns :
          effects = [queue |-> MountQueue, closure |-> Lists(NoUI),
                     updates |-> NoUpdates, passes |-> runs - 1,
                     opened |-> localStorage]

MountRunSaveEffect == \E key \in DOMAIN localStorage : RunSaveEffect(key)

NextMount ==
    \/ RunLoadEffect
    \/ MountRunSaveEffect
    \/ RunMountEffectsAgain
    \/ Render

SpecMount == InitMount /\ [][NextMount]_vars

(* every effect has run and no update is left to render *)
Settled ==
    /\ effects.queue = <<>> /\ effects.passes = 0
    /\ effects.updates = NoUpdates

(* C30: when AppContent is mounted with transactions, budgets and categories
   saved in localStorage, then once the mount effects and the renders they
   cause have run, the lists in memory and the three localStorage entries
   equal the saved values, however many times the mount effects ran. *)
C30_SavedDataSurvivesMount ==
    (/\ Settled
     /\ \A key \in DOMAIN effects.opened : effects.opened[key].present) =>
        /\ localStorage = effects.opened
        /\ \A key \in DOMAIN effects.opened :
              Lists(ui)[key] = JsonParse(effects.opened[key])

====
